---- MODULE Spec2Model ----
(***************************************************************************)
(* A model of cppclean's parsing core: the tokenizer (cpp/tokenize.py) and *)
(* the AST builder (cpp/ast.py).  Source text is a sequence of one-char    *)
(* strings; all indices are Python's 0-based indices, so the definitions   *)
(* can be read side by side with the code.                                 *)
(***************************************************************************)
EXTENDS Integers, Sequences, FiniteSets, TLC

\* ----------------------------------------------------------------- bounds
\* The number of characters of a modelled source of quotes and backslashes.
MaxChars == 5
\* The number of fragments after a modelled #define, and of operator characters.
MaxFrags == 3
\* The number of fragments after a modelled #if 0 line.
MaxRegion == 5
\* The number of tokens recorded before the model stops pulling.
MaxTokens == 6
\* The cap on the #if depth counter.
MaxIfs == 4

\* ------------------------------------------------------ character classes
LowerLetters ==
    {"a","b","c","d","e","f","g","h","i","j","k","l","m",
     "n","o","p","q","r","s","t","u","v","w","x","y","z"}
UpperLetters ==
    {"A","B","C","D","E","F","G","H","I","J","K","L","M",
     "N","O","P","Q","R","S","T","U","V","W","X","Y","Z"}
Digits == {"0","1","2","3","4","5","6","7","8","9"}
VALID_IDENTIFIER_FIRST_CHARS == LowerLetters \cup UpperLetters \cup {"_", "$"}
VALID_IDENTIFIER_CHARS == VALID_IDENTIFIER_FIRST_CHARS \cup Digits
HEX_DIGITS == Digits \cup {"a","b","c","d","e","f","A","B","C","D","E","F"}
INT_OR_FLOAT_DIGITS == Digits \cup {"e", "E", "-", "+"}
STR_PREFIXES ==
    { <<"R">>, <<"u","8">>, <<"u","8","R">>, <<"u">>, <<"u","R">>,
      <<"U">>, <<"U","R">>, <<"L">>, <<"L","R">> }
\* str.isspace, str.isdigit, str.isalpha and str.lower on one character.
IsSpace(c) == c \in {" ", "\n", "\t", "\r", "\f"}
IsDigit(c) == c \in Digits
IsAlpha(c) == c \in LowerLetters \cup UpperLetters
LowerPairs ==
    { <<"A","a">>, <<"B","b">>, <<"C","c">>, <<"D","d">>, <<"E","e">>,
      <<"F","f">>, <<"G","g">>, <<"H","h">>, <<"I","i">>, <<"J","j">>,
      <<"K","k">>, <<"L","l">>, <<"M","m">>, <<"N","n">>, <<"O","o">>,
      <<"P","p">>, <<"Q","q">>, <<"R","r">>, <<"S","s">>, <<"T","t">>,
      <<"U","u">>, <<"V","v">>, <<"W","w">>, <<"X","x">>, <<"Y","y">>,
      <<"Z","z">> }
Lower(c) ==
    IF c \in UpperLetters THEN (CHOOSE p \in LowerPairs : p[1] = c)[2] ELSE c
LowerStr(s) == [k \in 1..Len(s) |-> Lower(s[k])]

\* Token types.
UNKNOWN == "UNKNOWN"
SYNTAX == "SYNTAX"
\* (the code's CONSTANT; the bare word is reserved in TLA+)
CONSTANT_TOKEN == "CONSTANT"
NAME == "NAME"
PREPROCESSOR == "PREPROCESSOR"

\* ------------------------------------------------- Python string helpers
SetMin(S) == CHOOSE x \in S : \A y \in S : x <= y
\* source[k] for 0 <= k < len(source); the empty string stands for IndexError.
At(s, k) == IF k >= 0 /\ k < Len(s) THEN s[k + 1] ELSE ""
\* source[k] with Python's wrap-around of negative indices.
PyAt(s, k) == IF k < 0 THEN At(s, Len(s) + k) ELSE At(s, k)
\* source[a:b] for a >= 0.
Slice(s, a, b) ==
    LET hi == IF b > Len(s) THEN Len(s) ELSE b
    IN  IF a >= hi THEN << >> ELSE SubSeq(s, a + 1, hi)
\* source.find(sub, from, to): the lowest index in from..to-len(sub), or -1.
FindIn(s, sub, from, to) ==
    LET hi == IF to > Len(s) THEN Len(s) ELSE to
        hits == { k \in from..(hi - Len(sub)) :
                    \A j \in 1..Len(sub) : s[k + j] = sub[j] }
    IN  IF hits = {} THEN -1 ELSE SetMin(hits)
Find(s, sub, from) == FindIn(s, sub, from, Len(s))
\* source[:a].ljust(b) + source[b:]: the characters a..b-1 become spaces.
BlankOut(s, a, b) == [k \in 1..Len(s) |-> IF k > a /\ k <= b THEN " " ELSE s[k]]

\* ------------------------------------------------------------- tokenizer
Token(token_type, name, start, end) ==
    [token_type |-> token_type, name |-> name, start |-> start, end |-> end]

\* "while source[i] in chars: i += 1"
ScanWhile(s, i, chars) == SetMin({ k \in i..Len(s) : At(s, k) \notin chars })
\* "while i < end and source[i].isspace(): i += 1"
SkipSpace(s, i) == SetMin({ k \in i..Len(s) : ~IsSpace(At(s, k)) })

QUOTE == <<"\"">>
APOSTROPHE == <<"'">>

RECURSIVE BackslashCount(_, _, _)
\* The inner loop of _get_string: the number of backslashes at j, j-1, ...
BackslashCount(s, j, n) ==
    IF PyAt(s, j) = "\\" THEN BackslashCount(s, j - 1, n + 1) ELSE n

RECURSIVE get_string_loop(_, _, _)
\* The outer loop of _get_string at its head with index i.  The loop reads
\* nothing but source and i, so coming back to an index already seen at the
\* head is a loop that never ends: hang.
get_string_loop(s, i, seen) ==
    IF PyAt(s, i - 1) # "\\" THEN [hang |-> FALSE, i |-> i + 1]
    ELSE IF BackslashCount(s, i - 2, 1) % 2 = 0 THEN [hang |-> FALSE, i |-> i + 1]
    ELSE LET n == Find(s, QUOTE, i + 1)
         IN  IF n \in seen THEN [hang |-> TRUE, i |-> n]
             ELSE get_string_loop(s, n, seen \cup {n})

\* _get_string(source, i): the index after the closing quote.  find's -1 is
\* used as an index without a test.
get_string(s, i) ==
    LET f == Find(s, QUOTE, i + 1) IN get_string_loop(s, f, {f})

RECURSIVE get_char_loop(_, _)
get_char_loop(s, i) ==
    IF i # -1 /\ PyAt(s, i - 1) = "\\"
    THEN IF PyAt(s, i - 2) = "\\" THEN i
         ELSE get_char_loop(s, Find(s, APOSTROPHE, i + 1))
    ELSE i

\* _get_char(source, start, i)
get_char(s, start, i) ==
    LET e == get_char_loop(s, Find(s, APOSTROPHE, i + 1))
    IN  IF e # -1 THEN e + 1 ELSE start + 1

RECURSIVE PreprocessorLine(_, _)
\* The "while True" loop of the '#' branch, from index i: the end of the
\* directive's logical line.  st is "ok", "TokenError_expected" (_find) or
\* "IndexError" (source[i] with i == end).
PreprocessorLine(s, i) ==
    LET end == Len(s)
        i1 == Find(s, <<"\n">>, i)
        i2 == Find(s, <<"/", "/">>, i)
        i3 == Find(s, <<"/", "*">>, i)
        i4 == Find(s, QUOTE, i)
        m  == SetMin({ x \in {i1, i2, i3, i4, end} : x # -1 })
    IN  IF m = i3
        THEN LET e == Find(s, <<"*", "/">>, m)
             IN  IF e = -1 THEN [source |-> s, i |-> m, st |-> "TokenError_expected"]
                 ELSE PreprocessorLine(BlankOut(s, i3, e + 2), e + 2)
        ELSE IF m >= end THEN [source |-> s, i |-> m, st |-> "IndexError"]
        ELSE IF At(s, m) = "\""
        THEN LET e == Find(s, QUOTE, m + 1)
             IN  IF e = -1 THEN [source |-> s, i |-> m, st |-> "TokenError_expected"]
                 ELSE PreprocessorLine(s, e + 1)
        ELSE IF m = i1 /\ PyAt(s, m - 1) = "\\" THEN PreprocessorLine(s, m + 1)
        ELSE [source |-> s, i |-> m, st |-> "ok"]

\* The condition text of an #if directive that starts at start and ends at i.
IfCondition(s, start, i) ==
    LET end == Len(s)
        b0 == FindIn(s, <<"(">>, start, i)
        begin == (IF b0 = -1 THEN Find(s, <<" ">>, start) ELSE b0) + 1
        s1 == Find(s, <<" ">>, begin)
        s2 == Find(s, <<")">>, begin)
        s3 == Find(s, <<"\n">>, begin)
        e  == SetMin({ x \in {s1, s2, s3, end} : x # -1 })
    IN  Slice(s, begin, e)

\* Whether the condition switches suppression on.
IsFalseCondition(cond) ==
    cond = <<"0">> \/ cond = <<"_","_","O","B","J","C","_","_">>

\* The integer and float suffixes, in the order the code tries them.
INT_SUFFIXES ==
    << <<"u","l","l">>, <<"l","l">>, <<"u","l">>, <<"l">>, <<"f">>, <<"u">> >>
FLOAT_SUFFIXES == << <<"l">>, <<"f">> >>
\* "for suffix in ...: if suffix == source[i:i + size].lower(): i += size; break"
SuffixEnd(s, i, suffixes) ==
    LET hit == { n \in 1..Len(suffixes) :
                   suffixes[n] = LowerStr(Slice(s, i, i + Len(suffixes[n]))) }
    IN  IF hit = {} THEN i ELSE i + Len(suffixes[SetMin(hit)])

\* The outcome of one iteration of the main loop of get_tokens.
Outcome(s, i, cif, toks, status) ==
    [source |-> s, i |-> i, count_ifs |-> cif, toks |-> toks, st |-> status]

\* Mutant: end is the index of the last character, as Token's docstring says.
Yield_EndInclusive(s, start, i, token_type, cif) ==
    IF cif # 0 THEN Outcome(s, i, cif, << >>, "run")
    ELSE IF ~(i > 0) THEN Outcome(s, i, cif, << >>, "AssertionError")
    ELSE Outcome(s, i, cif, << Token(token_type, Slice(s, start, i), start, i - 1) >>, "run")
\* The end of an iteration that found a token: "if count_ifs: continue",
\* "assert i > 0", "yield Token(token_type, source[start:i], start, i)".
Yield(s, start, i, token_type, cif) ==
    IF cif # 0 THEN Outcome(s, i, cif, << >>, "run")
    ELSE IF ~(i > 0) THEN Outcome(s, i, cif, << >>, "AssertionError")
    ELSE Outcome(s, i, cif, << Token(token_type, Slice(s, start, i), start, i) >>, "run")

\* A string literal that starts at the quote at index q.
StringFrom(s, start, q, cif) ==
    LET g == get_string(s, q)
    IN  IF g.hang THEN Outcome(s, q, cif, << >>, "hang")
        ELSE Yield(s, start, g.i, CONSTANT_TOKEN, cif)

\* c in valid_identifier_first_chars: a name, or a prefixed literal.
NameBranch(s, start, cif) ==
    LET i == ScanWhile(s, start, VALID_IDENTIFIER_CHARS)
        prefix == Slice(s, start, i)
    IN  IF At(s, i) = "'" /\ prefix \in STR_PREFIXES
        THEN Yield(s, start, get_char(s, start, i), CONSTANT_TOKEN, cif)
        ELSE IF At(s, i) = "\"" /\ prefix \in STR_PREFIXES
        THEN StringFrom(s, start, i, cif)
        ELSE Yield(s, start, i, NAME, cif)

\* Mutant: "if new_ch == c:", without "and c != '>'".
AngleBranch_MergesAll(s, start, cif) ==
    LET c == At(s, start)
        i1 == start + 1
        i2 == IF At(s, i1) = c THEN i1 + 1 ELSE i1
        i3 == IF At(s, i2) = "=" THEN i2 + 1 ELSE i2
    IN  Yield(s, start, i3, SYNTAX, cif)
\* c in '<>': '<', '<<', '<=', '<<=', '>', '>='.
AngleBranch(s, start, cif) ==
    LET c == At(s, start)
        i1 == start + 1
        i2 == IF At(s, i1) = c /\ c # ">" THEN i1 + 1 ELSE i1
        i3 == IF At(s, i2) = "=" THEN i2 + 1 ELSE i2
    IN  Yield(s, start, i3, SYNTAX, cif)

\* c in ':+-&|=': 'XX', '->' and 'X='.
DoubleBranch(s, start, cif) ==
    LET c == At(s, start)
        n == At(s, start + 1)
        i == IF n = c THEN start + 2
             ELSE IF c = "-" /\ n = ">" THEN start + 2
             ELSE IF n = "=" THEN start + 2
             ELSE start + 1
    IN  Yield(s, start, i, SYNTAX, cif)

\* c in '!*^%/': 'X='.
AssignBranch(s, start, cif) ==
    Yield(s, start, IF At(s, start + 1) = "=" THEN start + 2 ELSE start + 1,
          SYNTAX, cif)

\* c in '()[]{}~?;.,': one character, or a float that starts with '.'.
SingleBranch(s, start, cif) ==
    IF At(s, start) = "." /\ IsDigit(At(s, start + 1))
    THEN LET i == ScanWhile(s, start + 2, INT_OR_FLOAT_DIGITS)
         IN  Yield(s, start, SuffixEnd(s, i, FLOAT_SUFFIXES), CONSTANT_TOKEN, cif)
    ELSE Yield(s, start, start + 1, SYNTAX, cif)

\* c.isdigit(): an integer or a float.
DigitBranch(s, start, cif) ==
    LET i == IF At(s, start) = "0" /\ At(s, start + 1) \in {"x", "X"}
             THEN ScanWhile(s, start + 2, HEX_DIGITS)
             ELSE ScanWhile(s, start, INT_OR_FLOAT_DIGITS \cup {"."})
        j == IF IsAlpha(At(s, i)) THEN SuffixEnd(s, i, INT_SUFFIXES) ELSE i
    IN  Yield(s, start, j, CONSTANT_TOKEN, cif)

\* c == '#': a directive; the #if 0 bookkeeping.
HashBranch(s, start, cif) ==
    LET got_if == Slice(s, start, start + 3) = <<"#","i","f">>
        is_endif == cif # 0 /\ Slice(s, start, start + 6) = <<"#","e","n","d","i","f">>
        cif1 == IF is_endif THEN cif - 1 ELSE cif
    IN  IF is_endif /\ cif1 = 0
        THEN Outcome(BlankOut(s, start, start + 6), start, 0, << >>, "run")
        ELSE LET p == PreprocessorLine(s, start)
             IN  IF p.st # "ok" THEN Outcome(p.source, p.i, cif1, << >>, p.st)
                 ELSE LET cif2 ==
                            IF got_if /\ (cif1 # 0 \/
                                  IsFalseCondition(IfCondition(p.source, start, p.i)))
                            THEN cif1 + 1 ELSE cif1
                      IN  Yield(p.source, start, p.i, PREPROCESSOR, cif2)

\* One iteration of "while i < end" in get_tokens, entered with i < end.
Iteration(s, i0, cif) ==
    LET start == SkipSpace(s, i0)
        c == At(s, start)
        n == At(s, start + 1)
    IN  IF start >= Len(s) THEN Outcome(s, start, cif, << >>, "done")
        ELSE IF c \in VALID_IDENTIFIER_FIRST_CHARS \/ c = "_" THEN NameBranch(s, start, cif)
        ELSE IF c = "/" /\ n = "/"
        THEN Outcome(s, Find(s, <<"\n">>, start), cif, << >>, "run")
        ELSE IF c = "/" /\ n = "*"
        THEN LET e == Find(s, <<"*", "/">>, start)
             IN  IF e = -1 THEN Outcome(s, start, cif, << >>, "TokenError_expected")
                 ELSE Outcome(s, e + 2, cif, << >>, "run")
        ELSE IF c \in {"<", ">"} THEN AngleBranch(s, start, cif)
        ELSE IF c \in {":", "+", "-", "&", "|", "="} THEN DoubleBranch(s, start, cif)
        ELSE IF c \in {"!", "*", "^", "%", "/"} THEN AssignBranch(s, start, cif)
        ELSE IF c \in {"(", ")", "[", "]", "{", "}", "~", "?", ";", ".", ","}
        THEN SingleBranch(s, start, cif)
        ELSE IF IsDigit(c) THEN DigitBranch(s, start, cif)
        ELSE IF c = "\"" THEN StringFrom(s, start, start, cif)
        ELSE IF c = "'" THEN Yield(s, start, get_char(s, start, start), CONSTANT_TOKEN, cif)
        ELSE IF c = "#" THEN HashBranch(s, start, cif)
        ELSE IF c = "\\" THEN Outcome(s, start + 1, cif, << >>, "run")
        ELSE IF cif # 0 THEN Outcome(s, start + 1, cif, << >>, "run")
        ELSE Outcome(s, start, cif, << >>, "TokenError_unexpected")

\* "if not source.endswith('\n'): source += '\n'"
Normalize(text) ==
    IF Len(text) > 0 /\ text[Len(text)] = "\n" THEN text ELSE Append(text, "\n")

\* ------------------------------------------------------ modelled sources
RECURSIVE Flatten(_)
\* The concatenation of a sequence of fragments.
Flatten(fs) == IF fs = << >> THEN << >> ELSE Head(fs) \o Flatten(Tail(fs))
\* The sequences of at most n elements of S.
SeqsUpTo(S, n) == UNION { [1..k -> S] : k \in 0..n }

IF0_LINE == <<"#","i","f"," ","0","\n">>
IF1_LINE == <<"#","i","f"," ","1","\n">>
ENDIF_LINE == <<"#","e","n","d","i","f","\n">>
DEFINE_X == <<"#","d","e","f","i","n","e"," ","X"," ">>

\* Quotes, backslashes, a name that is also a literal prefix, comments.
QuoteChars == {"\"", "'", "\\", "L", "/", "\n"}
QuoteSources == SeqsUpTo(QuoteChars, MaxChars)

\* A #define followed by comments, strings and line continuations.
DirectiveFrags ==
    { <<"/","*">>, <<"*","/">>, <<"\"">>, <<"\\","\n">>, <<"L">>, <<"\n">>, <<"/","/">> }
DirectiveSources ==
    { DEFINE_X \o Flatten(fs) : fs \in SeqsUpTo(DirectiveFrags, MaxFrags) }

\* An #if 0 region: what follows the directive is any mix of garbage,
\* names, quotes, nested #if lines and #endif lines.
RegionFrags ==
    { <<"@","\n">>, <<"L","\n">>, <<"'","\n">>, <<"\"","\n">>, IF1_LINE, ENDIF_LINE }
If0Sources ==
    { pre \o IF0_LINE \o Flatten(fs) :
        pre \in { << >>, <<"L","\n">> }, fs \in SeqsUpTo(RegionFrags, MaxRegion) }

\* 5 <op> 3 for the operators made of '<', '>', '=' and '-'.
ShiftSources ==
    { <<"5"," ">> \o op \o <<" ","3">> :
        op \in SeqsUpTo({"<", ">", "=", "-"}, MaxFrags) \ { << >> } }

NESTED_TEMPLATE ==
    <<"v","e","c","t","o","r","<","v","e","c","t","o","r","<","i","n","t",">",">">>

\* Numbers: digits, a point, an exponent marker and signs.
MaxDigits == 4
NumberChars == {"5", "3", ".", "e", "+", "-"}
FLOAT_EXPONENT == <<"3",".","1","4","e","+","1","0">>
FIVE_MINUS_THREE == <<"5","-","3">>
NumberSources == SeqsUpTo(NumberChars, MaxDigits) \cup {FLOAT_EXPONENT}

Sources ==
    QuoteSources \cup DirectiveSources \cup If0Sources \cup ShiftSources
        \cup NumberSources \cup {NESTED_TEMPLATE}

\* ============================================================ AST builder

\* The methods of ASTBuilder and of TypeConverter, and the parts they are cut
\* into here, call one another through Call: Call("get_name", << src >>) is
\* get_name(src).  TLC's coverage statistics expand an operator at each place
\* it is applied, and a recursive operator only once on a path; with one
\* recursive operator between any two methods every method is expanded once.
RECURSIVE Call(_, _)
\* cpp/keywords.py
TYPES ==
    { "bool", "char", "int", "long", "short", "double", "float", "void",
      "wchar_t", "unsigned", "signed", "size_t", "auto", "asm" }
TYPE_MODIFIERS ==
    { "register", "const", "constexpr", "extern", "static", "volatile", "mutable" }
OTHER_MODIFIERS == { "class", "struct", "union", "enum" }
ACCESS == { "public", "protected", "private", "friend" }
CASTS == { "static_cast", "const_cast", "dynamic_cast", "reinterpret_cast" }
OTHERS ==
    { "true", "false", "asm", "namespace", "using", "explicit", "this",
      "operator", "sizeof", "new", "delete", "typedef", "typeid", "typename",
      "template", "virtual", "inline" }
CONTROL == { "case", "switch", "default", "if", "else", "return", "goto" }
EXCEPTION == { "try", "catch", "throw" }
LOOP == { "while", "do", "for", "break", "continue" }
ALL ==
    TYPES \cup TYPE_MODIFIERS \cup OTHER_MODIFIERS \cup ACCESS \cup CASTS
        \cup OTHERS \cup CONTROL \cup EXCEPTION \cup LOOP
is_keyword(token) == token \in ALL
is_builtin_type(token) == token \in TYPES \/ token \in TYPE_MODIFIERS
is_builtin_modifiers(token) == token \in TYPE_MODIFIERS \/ token \in OTHER_MODIFIERS
is_builtin_other_modifiers(token) == token \in OTHER_MODIFIERS

\* cpp/ast.py: the function modifier bits.
FUNCTION_NONE == 0
FUNCTION_SPECIFIER == 1
FUNCTION_VIRTUAL == 2
FUNCTION_PURE_VIRTUAL == 4
FUNCTION_CTOR == 8
FUNCTION_DTOR == 16
FUNCTION_ATTRIBUTE == 32
FUNCTION_UNKNOWN_ANNOTATION == 64
FUNCTION_THROW == 128
\* "modifiers |= flag" for a flag of one bit.
BitOr(modifiers, flag) ==
    IF (modifiers \div flag) % 2 = 1 THEN modifiers ELSE modifiers + flag

\* The builder's token names and node names are written as TLA+ strings; the
\* tokenizer's are sequences of characters.  Str and Chars change the
\* representation and nothing else.
RECURSIVE Str(_)
Str(cs) == IF cs = << >> THEN "" ELSE Head(cs) \o Str(Tail(cs))
Chars(str) == [k \in 1..Len(str) |-> SubSeq(str, k, k)]
\* Python's None.  No NAME token can have this text.
None == "<None>"
\* "name in 'xy'" for a two-character string 'xy': Python's substring test.
InStr(name, x, y) == name \in { "", x, y, x \o y }
\* "name == name.upper()"
IsUpper(name) == \A k \in 1..Len(name) : SubSeq(name, k, k) \notin LowerLetters
\* Python's seq[-1], seq[:-1] and list(reversed(seq)).
Last(seq) == seq[Len(seq)]
Front(seq) == SubSeq(seq, 1, Len(seq) - 1)
Reverse(seq) == [k \in 1..Len(seq) |-> seq[Len(seq) + 1 - k]]

\* How a call ends: OK, or the name of the exception it raises ("hang" for a
\* loop that never ends).  A result is a record with the builder after the
\* call (b), exc, and the call's values.
OK == "ok"
Raise(b, exc) == [b |-> b, exc |-> exc]

\* A get_tokens generator is kept as what it has still to give: the tokens
\* it will yield, in order, and how it ends after them ("StopIteration", or
\* the error it raises).  The generator shares no state with its consumer,
\* so both are fixed by the text.
RECURSIVE get_tokens_run(_, _, _, _)
\* The tokens of a run that begins with the iteration whose outcome is o.
get_tokens_after(o, fuel) ==
    IF o.st = "run"
    THEN [get_tokens_run(o.source, o.i, o.count_ifs, fuel - 1) EXCEPT !.toks = o.toks \o @]
    ELSE [gen |-> "get_tokens", toks |-> o.toks,
          end |-> IF o.st = "done" THEN "StopIteration" ELSE o.st]
\* The main loop of get_tokens from one iteration to its end.  fuel bounds
\* the iterations: a run that ends takes at most one iteration for each
\* character of the source and one more, a longer run is one that never
\* ends ("hang").
get_tokens_run(source, i, count_ifs, fuel) ==
    IF fuel = 0 THEN [gen |-> "get_tokens", toks |-> << >>, end |-> "hang"]
    ELSE get_tokens_after(Iteration(source, i, count_ifs), fuel)

\* get_tokens(text): the generator before its first next().
get_tokens(text) ==
    get_tokens_run(Normalize(text), 0, 0, Len(Normalize(text)) + 1)

\* next() of a get_tokens generator.  A generator that has ended or raised
\* raises StopIteration from then on.
get_tokens_next(g) ==
    IF g.toks # << >>
    THEN [gen |-> [g EXCEPT !.toks = Tail(g.toks)], exc |-> OK,
          token |-> [g.toks[1] EXCEPT !.name = Str(g.toks[1].name)]]
    ELSE [gen |-> [g EXCEPT !.end = "StopIteration"], exc |-> g.end]

RECURSIVE drain(_)
drain(g) ==
    IF g.toks = << >> THEN << >>
    ELSE << get_tokens_next(g).token >> \o drain(get_tokens_next(g).gen)
\* list(get_tokens(text)), for a text that get_tokens does not fail on.
list_get_tokens(text) == drain(get_tokens(text))

\* ASTBuilder.__init__
ASTBuilder(token_stream, in_class, namespace_stack) ==
    [tokens |-> token_stream, token_queue |-> << >>,
     namespace_stack |-> namespace_stack,
     namespaces |-> IF in_class # None THEN << FALSE >> ELSE << >>,
     define |-> {}, in_class |-> in_class,
     handling_typedef |-> FALSE, handling_const |-> FALSE]

\* builder_from_source
builder_from_source(text) == ASTBuilder(get_tokens(text), None, << >>)

\* The generator self.get_scope() that _get_class hands to the builder of a
\* class body: owner is the builder it pulls from.
get_scope(owner) == [gen |-> "get_scope", owner |-> owner, count |-> 1]

\* Mutant: the generator counts the closing braces only.
get_scope_next_CountsClosingOnly(g) ==
    IF g.count = 0 THEN [gen |-> g, exc |-> "StopIteration"]
    ELSE LET r == Call("_get_next_token", << g.owner >>)
         IN  IF r.exc = "StopIteration"
             THEN [gen |-> [g EXCEPT !.owner = r.b, !.count = 0], exc |-> "RuntimeError"]
             ELSE IF r.exc # OK
             THEN [gen |-> [g EXCEPT !.owner = r.b, !.count = 0], exc |-> r.exc]
             ELSE LET count == IF r.token.token_type # SYNTAX THEN g.count
                               ELSE IF r.token.name = "}" THEN g.count - 1
                               ELSE g.count
                  IN  [gen |-> [g EXCEPT !.owner = r.b, !.count = count],
                       exc |-> OK, token |-> r.token]
\* next() of a get_scope generator (_get_matching_char('{', '}')).  A
\* StopIteration raised inside a generator leaves it as RuntimeError.
get_scope_next(g) ==
    IF g.count = 0 THEN [gen |-> g, exc |-> "StopIteration"]
    ELSE LET r == Call("_get_next_token", << g.owner >>)
         IN  IF r.exc = "StopIteration"
             THEN [gen |-> [g EXCEPT !.owner = r.b, !.count = 0], exc |-> "RuntimeError"]
             ELSE IF r.exc # OK
             THEN [gen |-> [g EXCEPT !.owner = r.b, !.count = 0], exc |-> r.exc]
             ELSE LET count == IF r.token.token_type # SYNTAX THEN g.count
                               ELSE IF r.token.name = "{" THEN g.count + 1
                               ELSE IF r.token.name = "}" THEN g.count - 1
                               ELSE g.count
                  IN  [gen |-> [g EXCEPT !.owner = r.b, !.count = count],
                       exc |-> OK, token |-> r.token]

\* _get_next_token
_get_next_token(b) ==
    IF b.token_queue # << >>
    THEN [b |-> [b EXCEPT !.token_queue = Front(b.token_queue)], exc |-> OK,
          token |-> Last(b.token_queue)]
    ELSE LET r == IF b.tokens.gen = "get_tokens" THEN get_tokens_next(b.tokens)
                  ELSE Call("get_scope_next", << b.tokens >>)
             b1 == [b EXCEPT !.tokens = r.gen]
         IN  IF r.exc # OK THEN Raise(b1, r.exc)
             ELSE [b |-> b1, exc |-> OK, token |-> r.token]

\* _add_back_token
_add_back_token(b, token) == [b EXCEPT !.token_queue = Append(b.token_queue, token)]
\* Mutant: the tokens are put on the queue in the order given.
_add_back_tokens_KeepsOrder(b, tokens) ==
    [b EXCEPT !.token_queue = b.token_queue \o tokens]
\* _add_back_tokens
_add_back_tokens(b, tokens) ==
    [b EXCEPT !.token_queue = b.token_queue \o Reverse(tokens)]

\* The callers of get_name and _get_matching_char read either from the
\* builder or from iter(seq), a list iterator: [it |-> the items left].
Pull(src) ==
    IF "it" \in DOMAIN src
    THEN IF src.it = << >> THEN Raise(src, "StopIteration")
         ELSE [b |-> [it |-> Tail(src.it)], exc |-> OK, token |-> Head(src.it)]
    ELSE Call("_get_next_token", << src >>)

\* The loop of _get_matching_char, run to its end as list(...) does.
matching_loop(src, open_paren, close_paren, count, tokens) ==
    IF count = 0 THEN [b |-> src, exc |-> OK, tokens |-> tokens]
    ELSE LET r == Call("Pull", << src >>)
         IN  IF r.exc = "StopIteration" THEN Raise(r.b, "RuntimeError")
             ELSE IF r.exc # OK THEN Raise(r.b, r.exc)
             ELSE LET c == IF r.token.token_type # SYNTAX THEN count
                           ELSE IF r.token.name = open_paren THEN count + 1
                           ELSE IF r.token.name = close_paren THEN count - 1
                           ELSE count
                  IN  Call("matching_loop", << r.b, open_paren, close_paren, c,
                                               Append(tokens, r.token) >>)
\* list(self._get_matching_char(open_paren, close_paren, get_next_token))
_get_matching_char(src, open_paren, close_paren) ==
    Call("matching_loop", << src, open_paren, close_paren, 1, << >> >>)
\* list(self._get_parameters())
_get_parameters(b) == Call("_get_matching_char", << b, "(", ")" >>)

\* The while loop of _get_var_tokens_up_to at its test.
var_tokens_loop(b, skip_bracket_content, expected_tokens, last_token, tokens, count1, count2) ==
    IF ~(count1 # 0 \/ count2 # 0 \/ last_token.token_type # SYNTAX
            \/ last_token.name \notin expected_tokens)
    THEN [b |-> b, exc |-> OK, tokens |-> tokens, last |-> last_token]
    ELSE LET c1 == IF last_token.name = "[" THEN count1 + 1
                   ELSE IF last_token.name = "]" THEN count1 - 1
                   ELSE count1
             inside == skip_bracket_content /\ c1 = 0
             skip == IF inside /\ last_token.name = "operator" THEN FALSE
                     ELSE skip_bracket_content
             c2 == IF inside /\ last_token.name # "operator"
                   THEN IF last_token.name = "<" THEN count2 + 1
                        ELSE IF last_token.name = ">" THEN count2 - 1
                        ELSE count2
                   ELSE count2
             tokens1 == IF last_token.token_type # PREPROCESSOR
                        THEN Append(tokens, last_token) ELSE tokens
             r == Call("_get_next_token", << b >>)
         IN  IF r.exc # OK THEN Raise(r.b, r.exc)
             ELSE IF r.token.name = "(" /\ last_token.name \in r.b.define
             THEN LET p == Call("_get_parameters", << r.b >>)
                  IN  IF p.exc # OK THEN Raise(p.b, p.exc)
                      ELSE LET r2 == Call("_get_next_token", << p.b >>)
                           IN  IF r2.exc # OK THEN Raise(r2.b, r2.exc)
                               ELSE Call("var_tokens_loop", << r2.b, skip, expected_tokens,
                                                               r2.token, tokens1, c1, c2 >>)
             ELSE Call("var_tokens_loop", << r.b, skip, expected_tokens, r.token, tokens1, c1, c2 >>)

\* _get_var_tokens_up_to: tokens and last.
_get_var_tokens_up_to(b, skip_bracket_content, expected_tokens) ==
    LET r == Call("_get_next_token", << b >>)
    IN  IF r.exc # OK THEN Raise(r.b, r.exc)
        ELSE Call("var_tokens_loop", << r.b, skip_bracket_content, expected_tokens, r.token,
                                        << >>, 0, 0 >>)

\* collections.Counter(names)[name]
CountOf(tokens, name) == Cardinality({ k \in 1..Len(tokens) : tokens[k].name = name })

\* _get_var_tokens_up_to_w_function; its first parameter is not used.
_get_var_tokens_up_to_w_function(b, skip_bracket_content, expected_tokens) ==
    LET r == Call("_get_var_tokens_up_to", << b, FALSE, expected_tokens >>)
    IN  IF r.exc # OK THEN r
        ELSE IF "(" \in expected_tokens
                /\ CountOf(r.tokens, "<") # CountOf(r.tokens, ">")
                /\ CountOf(r.tokens, "function") = 1
                /\ r.last.name = "("
        THEN LET idx == SetMin({ k \in 1..Len(r.tokens) : r.tokens[k].name = "function" })
             IN  IF idx + 1 <= Len(r.tokens) /\ r.tokens[idx + 1].name = "<"
                 THEN LET n == Call("_get_var_tokens_up_to", << r.b, FALSE, { "(", ";" } >>)
                      IN  IF n.exc # OK THEN n
                          ELSE [b |-> n.b, exc |-> OK,
                                tokens |-> Append(r.tokens, r.last) \o n.tokens,
                                last |-> n.last]
                 ELSE r
        ELSE r

\* _get_tokens_up_to
_get_tokens_up_to(b, expected_token) == Call("_get_var_tokens_up_to", << b, FALSE, { expected_token } >>)
\* _ignore_up_to
_ignore_up_to(b, token) == Call("_get_tokens_up_to", << b, token >>)

\* The while loop of get_name at its test.
get_name_loop(src, next_token, tokens, last_token_was_name) ==
    IF ~(next_token.token_type = NAME
            \/ (next_token.token_type = SYNTAX /\ next_token.name \in { "::", "<" }))
    THEN [b |-> src, exc |-> OK, tokens |-> tokens, next_token |-> next_token]
    ELSE IF last_token_was_name /\ next_token.token_type = NAME
    THEN [b |-> src, exc |-> OK, tokens |-> tokens, next_token |-> next_token]
    ELSE LET m == IF next_token.name = "<" THEN Call("_get_matching_char", << src, "<", ">" >>)
                  ELSE [b |-> src, exc |-> OK, tokens |-> << >>]
         IN  IF m.exc # OK THEN Raise(m.b, m.exc)
             ELSE LET r == Call("Pull", << m.b >>)
                  IN  IF r.exc # OK THEN Raise(r.b, r.exc)
                      ELSE Call("get_name_loop", << r.b, r.token,
                                                    Append(tokens, next_token) \o m.tokens,
                                                    next_token.name = "<"
                                                       \/ next_token.token_type = NAME >>)

\* get_name: ([tokens], next_token), read from the builder or from iter(seq).
get_name(src) ==
    LET r == Call("Pull", << src >>)
    IN  IF r.exc # OK THEN Raise(r.b, r.exc)
        ELSE Call("get_name_loop", << r.b, r.token, << >>, FALSE >>)

\* ---------------------------------------------------------- TypeConverter
\* ''.join(names) and ' '.join(names)
RECURSIVE Join(_, _)
Join(sep, names) ==
    IF names = << >> THEN ""
    ELSE IF Len(names) = 1 THEN names[1]
    ELSE names[1] \o sep \o Join(sep, Tail(names))
\* [t.name for t in tokens]
Names(tokens) == [k \in 1..Len(tokens) |-> tokens[k].name]

\* Python's None for a value that is not a string, and a value that is there.
Nothing == << >>
Some(v) == << v >>

\* Type.__init__: "if not name and modifiers: self.name = modifiers.pop()".
\* The name is a string; the one Type whose name is a node (the class of a
\* variable declared after a class body) has it in name_node.
Type(start, end, name, templated_types, modifiers, reference, pointer, array) ==
    LET swap == name \in { "", None } /\ modifiers # << >>
    IN  [kind |-> "Type", start |-> start, end |-> end,
         name |-> IF swap THEN Last(modifiers) ELSE name,
         namespace |-> << >>,
         templated_types |-> templated_types,
         modifiers |-> IF swap THEN Front(modifiers) ELSE modifiers,
         reference |-> reference, pointer |-> pointer, array |-> array,
         name_node |-> Nothing]

\* Node._string_helper: '%s(%d, %d, %s)' % (name, self.start, self.end, suffix)
_string_helper(node, name, suffix) ==
    name \o "(" \o ToString(node.start) \o ", " \o ToString(node.end) \o ", " \o suffix \o ")"
\* _GenericDeclaration._type_string_helper
_type_string_helper(node, suffix) ==
    _string_helper(node, node.kind,
        IF node.namespace = << >> THEN suffix
        ELSE suffix \o " in "
                 \o Join("::", [k \in 1..Len(node.namespace) |->
                                    IF node.namespace[k] \in { None, "" } THEN "<anonymous>"
                                    ELSE node.namespace[k]]))
RECURSIVE Type_str(_)
\* Type.__str__, of a Type whose name is a string.  '<%s>' % templated_types
\* writes the list as Python does: '[' item ', ' item ']', each item by its
\* __repr__, which is its __str__.
Type_str(type) ==
    LET prefix == IF type.modifiers # << >> THEN Join(" ", type.modifiers) \o " " ELSE ""
        name == IF type.templated_types # << >>
                THEN type.name \o "<["
                         \o Join(", ", [k \in 1..Len(type.templated_types) |->
                                            Type_str(type.templated_types[k])])
                         \o "]>"
                ELSE type.name
    IN  _type_string_helper(type,
            prefix \o name \o (IF type.reference THEN "&" ELSE "")
                \o (IF type.pointer THEN "*" ELSE "")
                \o (IF type.array THEN "[]" ELSE ""))

\* Mutant: a nested '<' is not counted, the first '>' ends the arguments.
template_end_loop_FirstClose(tokens, count, end) ==
    IF count # 0 /\ end < Len(tokens)
    THEN LET name == tokens[end + 1].name
         IN  Call("template_end_loop", << tokens,
                                          IF name = ">" THEN count - 1 ELSE count,
                                          end + 1 >>)
    ELSE end
\* The while loop of _get_template_end at its test.
template_end_loop(tokens, count, end) ==
    IF count # 0 /\ end < Len(tokens)
    THEN LET name == tokens[end + 1].name
         IN  Call("template_end_loop", << tokens,
                                          IF name = "<" THEN count + 1
                                          ELSE IF name = ">" THEN count - 1 ELSE count,
                                          end + 1 >>)
    ELSE end
\* _get_template_end: (tokens[start:end - 1], end)
_get_template_end(tokens, start) ==
    LET end == Call("template_end_loop", << tokens, 1, start >>)
    IN  [tokens |-> Slice(tokens, start, end - 1), end |-> end]

\* The local function add_type of to_type; s holds to_type's local variables.
add_type(s) ==
    IF s.name_tokens = << >> THEN s
    ELSE LET names == SelectSeq(Names(s.name_tokens), LAMBDA n : ~is_keyword(n))
             modifiers == SelectSeq(Names(s.name_tokens), is_keyword)
         IN  [s EXCEPT !.result = Append(s.result,
                            Type(s.name_tokens[1].start, Last(s.name_tokens).end,
                                 Join("", names), Call("to_type", << s.templated_tokens >>),
                                 modifiers, s.reference, s.pointer, s.array)),
                       !.name_tokens = << >>,
                       !.templated_tokens = << >>]

\* The while loop of to_type at its test.
to_type_loop(tokens, i, s) ==
    IF ~(i < Len(tokens)) THEN Call("add_type", << s >>).result
    ELSE LET token == tokens[i + 1]
         IN  IF token.name = "]"
             THEN Call("to_type_loop", << tokens, i + 1,
                                 [s EXCEPT !.inside_array = FALSE,
                                           !.pointer = IF s.empty_array THEN TRUE ELSE s.pointer,
                                           !.array = IF s.empty_array THEN s.array ELSE TRUE] >>)
             ELSE IF s.inside_array
             THEN Call("to_type_loop", << tokens, i + 1, [s EXCEPT !.empty_array = FALSE] >>)
             ELSE IF token.name = "<"
             THEN LET t == Call("_get_template_end", << tokens, i + 1 >>)
                  IN  Call("to_type_loop", << tokens, t.end, [s EXCEPT !.templated_tokens = t.tokens] >>)
             ELSE IF token.name = "," \/ token.name = "("
             THEN Call("to_type_loop", << tokens, i + 1,
                                 [Call("add_type", << s >>) EXCEPT !.reference = FALSE, !.pointer = FALSE,
                                                     !.array = FALSE, !.empty_array = TRUE] >>)
             ELSE IF token.name = "*"
             THEN Call("to_type_loop", << tokens, i + 1, [s EXCEPT !.pointer = TRUE] >>)
             ELSE IF token.name = "&"
             THEN Call("to_type_loop", << tokens, i + 1, [s EXCEPT !.reference = TRUE] >>)
             ELSE IF token.name = "["
             THEN Call("to_type_loop", << tokens, i + 1, [s EXCEPT !.inside_array = TRUE] >>)
             ELSE IF token.name # ")"
             THEN Call("to_type_loop", << tokens, i + 1,
                                 [s EXCEPT !.name_tokens = Append(s.name_tokens, token)] >>)
             ELSE Call("to_type_loop", << tokens, i + 1, s >>)

\* TypeConverter.to_type: [Token, ...] to [Type, ...]
to_type(tokens) ==
    Call("to_type_loop", << tokens, 0,
                   [result |-> << >>, name_tokens |-> << >>, reference |-> FALSE,
                    pointer |-> FALSE, array |-> FALSE, inside_array |-> FALSE,
                    empty_array |-> TRUE, templated_tokens |-> << >>] >>)

\* The first loop of declaration_to_parts ("Handle default (initial) values")
\* at index i; s holds arrayBegin, arrayEnd, default, other_tokens and parts.
default_loop(parts, i, s) ==
    IF ~(i < Len(parts)) THEN s
    ELSE LET t == parts[i + 1]
         IN  IF t.name = "[" /\ s.arrayBegin = 0
             THEN Call("default_loop", << parts, i + 1,
                                 [s EXCEPT !.arrayBegin = i,
                                           !.other_tokens = Append(s.other_tokens, t)] >>)
             ELSE IF t.name = "]"
             THEN Call("default_loop", << parts, i + 1,
                                 [s EXCEPT !.arrayEnd = i,
                                           !.other_tokens = Append(s.other_tokens, t)] >>)
             ELSE IF t.name = "="
             THEN [s EXCEPT !.default = Slice(parts, i + 1, Len(parts)),
                            !.parts = Slice(parts, 0, i)]
             ELSE Call("default_loop", << parts, i + 1, s >>)

\* The second loop of declaration_to_parts at index i; s holds modifiers,
\* type_name, last_type, templated_types and other_tokens.
parts_loop(parts, i, s) ==
    IF ~(i < Len(parts)) THEN s
    ELSE LET p == parts[i + 1]
         IN  IF is_builtin_modifiers(p.name)
             THEN Call("parts_loop", << parts, i + 1,
                                 [s EXCEPT !.modifiers = Append(s.modifiers, p.name)] >>)
             ELSE IF p.name = "<"
             THEN LET t == Call("_get_template_end", << parts, i + 1 >>)
                  IN  Call("parts_loop", << parts, t.end,
                                     [s EXCEPT !.templated_types = Call("to_type", << t.tokens >>)] >>)
             ELSE IF p.name \notin { "*", "&" }
             THEN LET type_name ==
                          IF s.last_type = NAME /\ p.token_type = NAME
                          THEN Append(s.type_name, "") ELSE s.type_name
                  IN  Call("parts_loop", << parts, i + 1,
                                     [s EXCEPT !.type_name =
                                                   [type_name EXCEPT ![Len(type_name)] = @ \o p.name],
                                               !.last_type = p.token_type] >>)
             ELSE Call("parts_loop", << parts, i + 1,
                                 [s EXCEPT !.other_tokens = Append(s.other_tokens, p)] >>)

\* TypeConverter.declaration_to_parts
declaration_to_parts(parts0, needs_name_removed) ==
    LET d == Call("default_loop", << parts0, 0,
                            [arrayBegin |-> 0, arrayEnd |-> 0, default |-> << >>,
                             other_tokens |-> << >>, parts |-> parts0] >>)
        parts == IF d.arrayBegin < d.arrayEnd
                 THEN Slice(d.parts, 0, d.arrayBegin)
                          \o Slice(d.parts, d.arrayEnd + 1, Len(d.parts))
                 ELSE d.parts
        s == Call("parts_loop", << parts, 0,
                            [modifiers |-> << >>, type_name |-> << "" >>, last_type |-> SYNTAX,
                             templated_types |-> << >>, other_tokens |-> d.other_tokens] >>)
        remove == needs_name_removed
                    /\ ~(Len(s.type_name) = 1 \/ is_builtin_type(Last(s.type_name)))
    IN  [name |-> IF remove THEN Last(s.type_name) ELSE None,
         type_name |-> Join(" ", IF remove THEN Front(s.type_name) ELSE s.type_name),
         templated_types |-> s.templated_types,
         modifiers |-> s.modifiers,
         default |-> d.default,
         other_tokens |-> s.other_tokens]

\* TypeConverter.create_return_type
create_return_type(return_type_seq) ==
    IF return_type_seq = << >> THEN Nothing
    ELSE LET d == Call("declaration_to_parts", << return_type_seq, FALSE >>)
             names == { d.other_tokens[k].name : k \in 1..Len(d.other_tokens) }
         IN  Some(Type(return_type_seq[1].start, Last(return_type_seq).end, d.type_name,
                       d.templated_types, d.modifiers,
                       "&" \in names, "*" \in names, "[" \in names))

\* Parameter.__init__
Parameter(start, end, name, parameter_type, default) ==
    [kind |-> "Parameter", start |-> start, end |-> end, name |-> name,
     type |-> parameter_type, default |-> default]

\* add_parameter() inside to_parameters: the result list after it.  s holds
\* the locals of to_parameters; has_default is "default" being non-empty,
\* and default the tokens after its first item, the flag.
add_parameter(s) ==
    IF s.type_modifiers = << >> THEN s.result
    ELSE LET d == Call("declaration_to_parts", << s.type_modifiers, TRUE >>)
         IN  IF d.type_name = "" THEN s.result
             ELSE Append(s.result,
                      Parameter(s.first_token[1].start, Last(s.type_modifiers).end, d.name,
                          Type(s.first_token[1].start, s.first_token[1].end, d.type_name,
                               d.templated_types, d.modifiers, s.reference, s.pointer, FALSE),
                          s.default))

\* The loop "for s in tokens" of to_parameters at index i.
parameters_loop(tokens, i, s0) ==
    IF ~(i < Len(tokens)) THEN s0
    ELSE LET t == tokens[i + 1]
             s == IF s0.first_token = Nothing THEN [s0 EXCEPT !.first_token = Some(t)] ELSE s0
             count == IF t.name = "<" THEN s.template_count + 1
                      ELSE IF t.name = ">" THEN s.template_count - 1
                      ELSE s.template_count
             s1 == [s EXCEPT !.template_count = count]
             next == IF count > 0
                     THEN IF s1.has_default THEN [s1 EXCEPT !.default = Append(@, t)]
                          ELSE [s1 EXCEPT !.type_modifiers = Append(@, t)]
                     ELSE IF t.name = ","
                     THEN [s1 EXCEPT !.result = Call("add_parameter", << s1 >>),
                                     !.type_modifiers = << >>, !.pointer = FALSE,
                                     !.reference = FALSE, !.first_token = Nothing,
                                     !.has_default = FALSE, !.default = << >>]
                     ELSE IF s1.has_default THEN [s1 EXCEPT !.default = Append(@, t)]
                     ELSE IF t.name = "*" THEN [s1 EXCEPT !.pointer = TRUE]
                     ELSE IF t.name = "&" THEN [s1 EXCEPT !.reference = TRUE]
                     ELSE IF t.name = "[" THEN [s1 EXCEPT !.pointer = TRUE]
                     ELSE IF t.name = "]" THEN s1
                     ELSE IF t.name = "=" THEN [s1 EXCEPT !.has_default = TRUE]
                     ELSE [s1 EXCEPT !.type_modifiers = Append(@, t)]
         IN  Call("parameters_loop", << tokens, i + 1, next >>)

\* TypeConverter.to_parameters: [Token, ...] to [Parameter, ...]
to_parameters(tokens) ==
    IF tokens = << >> THEN << >>
    ELSE Call("add_parameter",
              << Call("parameters_loop", << tokens, 0,
                          [result |-> << >>, type_modifiers |-> << >>, pointer |-> FALSE,
                           reference |-> FALSE, first_token |-> Nothing,
                           has_default |-> FALSE, default |-> << >>,
                           template_count |-> 0] >>) >>)

\* TypeConverter.get_template_indices: (start, end + 1); names holds a '<'.
get_template_indices(names) ==
    LET start == SetMin({ k \in 0..(Len(names) - 1) : names[k + 1] = "<" })
        closing == { k \in 1..(Len(names) - 1) : names[k + 1] = ">" }
        end == IF closing = {} THEN 0
               ELSE CHOOSE k \in closing : \A j \in closing : j <= k
    IN  [start |-> start, end |-> end + 1]

\* ------------------------------------------------------------------ nodes
\* A list a node could share with the builder: the namespace stack itself,
\* which no name is the text of.
SAME_LIST == "<namespace_stack>"
\* Mutant: the node keeps the builder's list, not a copy of it.
_GenericDeclaration_KeepsList(namespace) == << SAME_LIST >>
\* _GenericDeclaration.__init__: "self.namespace = namespace[:]", a new list
\* with the names the stack holds now.
_GenericDeclaration(namespace) == namespace

VariableDeclaration(start, end, name, var_type, initial_value, namespace) ==
    [kind |-> "VariableDeclaration", start |-> start, end |-> end, name |-> name,
     namespace |-> _GenericDeclaration(namespace), type |-> var_type, initial_value |-> initial_value]

\* Include.__init__
Include(start, end, filename, system) ==
    [kind |-> "Include", start |-> start, end |-> end, filename |-> filename,
     system |-> system]

\* Define.__init__
Define(start, end, name, definition) ==
    [kind |-> "Define", start |-> start, end |-> end, name |-> name,
     definition |-> definition]

\* VariableDeclaration.to_string
to_string(node) ==
    Type_str(node.type) \o " " \o node.name
        \o (IF node.initial_value \notin { "", None } THEN " = " \o node.initial_value ELSE "")

\* Enum.__init__: fields is None or the tokens between the braces.
Enum(start, end, name, fields, namespace) ==
    [kind |-> "Enum", start |-> start, end |-> end, name |-> name,
     namespace |-> _GenericDeclaration(namespace), fields |-> fields]

\* Mutant: an empty body is stored as None ("body or None").
Class_DropsEmptyBody(class_type, start, end, name, bases, templated_types, body, namespace) ==
    [kind |-> class_type, start |-> start, end |-> end, name |-> name,
     namespace |-> _GenericDeclaration(namespace), bases |-> bases,
     body |-> IF body = Some(<< >>) THEN Nothing ELSE body,
     templated_types |-> templated_types]
\* Class, Struct and Union: class_type is the name of the node class.
Class(class_type, start, end, name, bases, templated_types, body, namespace) ==
    [kind |-> class_type, start |-> start, end |-> end, name |-> name,
     namespace |-> _GenericDeclaration(namespace), bases |-> bases, body |-> body,
     templated_types |-> templated_types]

\* Function.__init__; the parameters are kept as the tokens between the
\* parentheses.
Function(start, end, name, return_type, parameters, specializations, modifiers, templated_types, body, namespace, initializers) ==
    [kind |-> "Function", start |-> start, end |-> end, name |-> name,
     namespace |-> _GenericDeclaration(namespace), return_type |-> Call("create_return_type", << return_type >>),
     parameters |-> parameters, specializations |-> Call("to_type", << specializations >>),
     modifiers |-> modifiers, body |-> body, templated_types |-> templated_types,
     initializers |-> initializers]

\* Method.__init__
Method(start, end, name, in_class, return_type, parameters, specializations, modifiers, templated_types, body, namespace) ==
    [kind |-> "Method", start |-> start, end |-> end, name |-> name,
     namespace |-> _GenericDeclaration(namespace), return_type |-> Call("create_return_type", << return_type >>),
     parameters |-> parameters, specializations |-> Call("to_type", << specializations >>),
     modifiers |-> modifiers, body |-> body, templated_types |-> templated_types,
     initializers |-> << >>, in_class |-> in_class]

\* ---- is_declaration, is_definition and is_exportable of a node n, by its
\* class: Class (Struct, Union), Function (Method), Typedef, Enum; every
\* other node has Node's methods, which return False.
CLASS_KINDS == { "Class", "Struct", "Union" }
FUNCTION_KINDS == { "Function", "Method" }
\* Mutant: "return self.bases is None", the body not looked at.
is_declaration_BasesOnly(n) ==
    IF n.kind \in CLASS_KINDS THEN n.bases = Nothing
    ELSE IF n.kind \in FUNCTION_KINDS THEN n.body = Nothing
    ELSE FALSE
is_declaration(n) ==
    IF n.kind \in CLASS_KINDS THEN n.bases = Nothing /\ n.body = Nothing
    ELSE IF n.kind \in FUNCTION_KINDS THEN n.body = Nothing
    ELSE FALSE
is_definition(n) ==
    IF n.kind \in CLASS_KINDS THEN ~is_declaration(n)
    ELSE IF n.kind \in FUNCTION_KINDS THEN n.body # Nothing
    ELSE n.kind \in { "Typedef", "Enum" }
is_exportable(n) ==
    IF n.kind \in CLASS_KINDS THEN ~is_declaration(n)
    ELSE IF n.kind \in FUNCTION_KINDS
    THEN IF n.return_type # Nothing
            /\ \E k \in 1..Len(n.return_type[1].modifiers) :
                   n.return_type[1].modifiers[k] \in { "static", "constexpr" }
         THEN FALSE
         ELSE \A k \in 1..Len(n.namespace) : n.namespace[k] # None
    ELSE n.kind \in { "Typedef", "Enum" }

\* _create_variable; ref_pointer_name_seq is the set of its names.
_create_variable(b, pos_token, name, type_name, type_modifiers, ref_pointer_name_seq, templated_types, value) ==
    VariableDeclaration(pos_token.start, pos_token.end, name,
        Type(pos_token.start, pos_token.end, type_name, templated_types,
             type_modifiers, "&" \in ref_pointer_name_seq,
             "*" \in ref_pointer_name_seq, "[" \in ref_pointer_name_seq),
        value, b.namespace_stack)

\* _get_variable
_get_variable(b, tokens) ==
    LET d == Call("declaration_to_parts", << tokens, TRUE >>)
        names == Names(tokens)
        idx == Call("get_template_indices", << names >>)
        kept == IF d.templated_types # << >>
                THEN Slice(names, 0, idx.start) \o Slice(names, idx.end, Len(names))
                ELSE names
    IN  IF tokens = << >> THEN Raise(b, "ParseError")
        ELSE [b |-> b, exc |-> OK,
              node |-> Call("_create_variable", << b, tokens[1], d.name, d.type_name, d.modifiers,
                                                   { kept[k] : k \in 1..Len(kept) },
                                                   d.templated_types, Join("", Names(d.default)) >>)]

\* The while loop of _get_return_type_and_class_name at its test.  An
\* iteration that finds no name leaves i, and so the next iteration, as they
\* were: the loop never ends (names grows by one empty list each time).
name_split_loop(seq_copy, i, end, names) ==
    IF ~(i < end) THEN [exc |-> OK, names |-> names]
    ELSE LET r == Call("get_name", << [it |-> Slice(seq_copy, i, Len(seq_copy))] >>)
         IN  IF r.exc # OK THEN [exc |-> r.exc]
             ELSE LET new_name == IF r.next_token.token_type = SYNTAX
                                  THEN Append(r.tokens, r.next_token) ELSE r.tokens
                  IN  IF Len(new_name) = 0 THEN [exc |-> "hang"]
                      ELSE Call("name_split_loop", << seq_copy, i + Len(new_name), end,
                                                      Append(names, new_name) >>)

\* Mutant: the class name keeps its trailing '::'.
_get_return_type_and_class_name_KeepsColons(token_seq) ==
    LET end == Len(token_seq) - 1
        seq_copy == Append(Slice(token_seq, 0, end), Token(SYNTAX, "", 0, 0))
        r == Call("name_split_loop", << seq_copy, 0, end, << >> >>)
    IN  IF r.exc # OK THEN r
        ELSE [exc |-> OK,
              return_type |-> Flatten(Front(r.names)),
              class_name |-> Last(r.names)]
\* _get_return_type_and_class_name: (return_type, class_name)
_get_return_type_and_class_name(token_seq) ==
    LET end == Len(token_seq) - 1
        seq_copy == Append(Slice(token_seq, 0, end), Token(SYNTAX, "", 0, 0))
        r == Call("name_split_loop", << seq_copy, 0, end, << >> >>)
    IN  IF r.exc # OK THEN r
        ELSE [exc |-> OK,
              return_type |-> Flatten(Front(r.names)),
              class_name |-> Front(Last(r.names))]

\* ------------------------------------------------------------ _get_method
\* "while count and index > 0" of the templatized-ctor branch: the index of
\* the '<' that opens the name's template arguments.
template_ctor_loop(seq, count, index) ==
    IF count # 0 /\ index > 0
    THEN LET name == seq[index].name
         IN  Call("template_ctor_loop", << seq,
                                           IF name = "<" THEN count - 1
                                           ELSE IF name = ">" THEN count + 1 ELSE count,
                                           index - 1 >>)
    ELSE index

\* The name of the method and what is left as its return type, from
\* "name = return_type_and_name.pop()" to "return_type = return_type_and_name".
method_name(return_type_and_name, specializations) ==
    IF return_type_and_name = << >> THEN [exc |-> "IndexError"]
    ELSE
    LET name0 == Last(return_type_and_name)
        seq0 == Front(return_type_and_name)
        merge == Len(seq0) > 2 /\ Last(seq0).name = ">"
                    /\ seq0[Len(seq0) - 1].name = "operator"
                    /\ name0.name \in { ">=", ">" }
        name1 == IF merge
                 THEN Token(SYNTAX, Last(seq0).name \o name0.name, Last(seq0).start, name0.end)
                 ELSE name0
        seq1 == IF merge THEN Front(seq0) ELSE seq0
    IN  IF Len(seq1) > 1 /\ Last(seq1).name \in { "operator", "~" }
        THEN [exc |-> OK, specializations |-> specializations, return_type |-> Front(seq1),
              name |-> Token(NAME, Last(seq1).name \o name1.name, Last(seq1).start, name1.end)]
        ELSE IF name1.name = ">"
        THEN LET index == Call("template_ctor_loop", << seq1, 1, Len(seq1) >>)
                 rest == Slice(seq1, 0, index)
             IN  IF rest = << >> THEN [exc |-> "IndexError"]
                 ELSE [exc |-> OK, specializations |-> Slice(seq1, index + 1, Len(seq1)),
                       return_type |-> Front(rest), name |-> Last(rest)]
        ELSE IF name1.name = "]"
        THEN IF Len(seq1) < 2 THEN [exc |-> "IndexError"]
             ELSE [exc |-> OK, specializations |-> specializations,
                   return_type |-> Slice(seq1, 0, Len(seq1) - 2),
                   name |-> Token(NAME, seq1[Len(seq1) - 1].name \o "[]",
                                  seq1[Len(seq1) - 1].start, name1.end)]
        ELSE [exc |-> OK, specializations |-> specializations, return_type |-> seq1, name |-> name1]

\* The get_paren part: the token after a dtor's name, "<...>" skipped.
method_paren(b, get_paren) ==
    IF ~get_paren THEN [b |-> b, exc |-> OK, specializations |-> << >>]
    ELSE LET r == Call("_get_next_token", << b >>)
         IN  IF r.exc # OK THEN Raise(r.b, r.exc)
             ELSE IF r.token.token_type # SYNTAX THEN Raise(r.b, "ParseError")
             ELSE IF r.token.name = "<"
             THEN LET m == Call("_get_matching_char", << r.b, "<", ">" >>)
                  IN  IF m.exc # OK THEN Raise(m.b, m.exc)
                      ELSE LET r2 == Call("_get_next_token", << m.b >>)
                           IN  IF r2.exc # OK THEN Raise(r2.b, r2.exc)
                               ELSE IF r2.token.token_type # SYNTAX \/ r2.token.name # "("
                               THEN Raise(r2.b, "ParseError")
                               ELSE [b |-> r2.b, exc |-> OK,
                                     specializations |-> Front(m.tokens)]
             ELSE IF r.token.name # "(" THEN Raise(r.b, "ParseError")
             ELSE [b |-> r.b, exc |-> OK, specializations |-> << >>]

\* "token = self._get_next_token()" and then "list(self._get_matching_char(
\* '(', ')')); token = self._get_next_token()" when that token is '(' (always,
\* or the ParseError of assert_parse, when must is TRUE).
skip_parens(b, must) ==
    LET r == Call("_get_next_token", << b >>)
    IN  IF r.exc # OK THEN Raise(r.b, r.exc)
        ELSE IF r.token.name # "("
        THEN IF must THEN Raise(r.b, "ParseError")
             ELSE [b |-> r.b, exc |-> OK, token |-> r.token]
        ELSE LET m == Call("_get_matching_char", << r.b, "(", ")" >>)
             IN  IF m.exc # OK THEN Raise(m.b, m.exc)
                 ELSE Call("_get_next_token", << m.b >>)

\* The token a parser step makes up when the stream gives none.
SEMICOLON == Token(SYNTAX, ";", 0, 0)

\* The loop over what follows the parameter list (const, override, final,
\* noexcept, __attribute__, throw, macros, directives) at its test.
tail_loop(b, token, modifiers) ==
    IF ~(token.token_type = NAME \/ token.token_type = PREPROCESSOR)
    THEN [b |-> b, exc |-> OK, token |-> token, modifiers |-> modifiers]
    ELSE IF token.name \in { "const", "override", "final" }
    THEN LET r == Call("_get_next_token", << b >>)
         IN  IF r.exc # OK THEN Raise(r.b, r.exc)
             ELSE Call("tail_loop", << r.b, r.token, BitOr(modifiers, FUNCTION_SPECIFIER) >>)
    ELSE IF token.name \in { "noexcept", "__attribute__", "throw" } \/ IsUpper(token.name)
    THEN LET r == Call("skip_parens", << b, token.name \in { "__attribute__", "throw" } >>)
             flag == IF token.name = "noexcept" THEN FUNCTION_SPECIFIER
                     ELSE IF token.name = "__attribute__" THEN FUNCTION_ATTRIBUTE
                     ELSE IF token.name = "throw" THEN FUNCTION_THROW
                     ELSE FUNCTION_UNKNOWN_ANNOTATION
         IN  IF r.exc # OK THEN Raise(r.b, r.exc)
             ELSE Call("tail_loop", << r.b, r.token, BitOr(modifiers, flag) >>)
    ELSE IF token.token_type = PREPROCESSOR
    THEN LET r == Call("_get_next_token", << b >>)
         IN  IF r.exc # OK THEN Raise(r.b, r.exc)
             ELSE Call("tail_loop", << r.b, r.token, modifiers >>)
    ELSE Call("tail_loop", << _add_back_token(b, token), SEMICOLON, modifiers >>)

\* "while token.name != ';' and token.name != '{'" of the ctor initializers.
initializers_loop(b, token, initializers) ==
    IF ~(token.name # ";" /\ token.name # "{")
    THEN [b |-> b, exc |-> OK, token |-> token, initializers |-> initializers]
    ELSE LET g == Call("get_name", << b >>)
         IN  IF g.exc # OK THEN Raise(g.b, g.exc)
             ELSE IF g.tokens = << >> THEN Raise(g.b, "IndexError")
             ELSE LET open == g.next_token.name
                      end == IF open = "{" THEN "}" ELSE ")"
                      m == IF open \in { "(", "{" } THEN Call("_get_matching_char", << g.b, open, end >>)
                           ELSE [b |-> g.b, exc |-> OK, tokens |-> << >>]
                  IN  IF m.exc # OK THEN Raise(m.b, m.exc)
                      ELSE LET r == Call("_get_next_token", << m.b >>)
                               value == SelectSeq(m.tokens,
                                            LAMBDA x : x.name # "," /\ x.name # end)
                           IN  IF r.exc # OK THEN Raise(r.b, r.exc)
                               ELSE Call("initializers_loop", << r.b, r.token,
                                                   IF open \in { "(", "{" }
                                                   THEN Append(initializers,
                                                               [member |-> g.tokens[1], value |-> value])
                                                   ELSE initializers >>)

\* "while parameters[-1].name in '()': parameters.pop()"; the empty list
\* stands for the IndexError of parameters[-1].
strip_parens(parameters) ==
    IF parameters = << >> THEN << >>
    ELSE IF InStr(Last(parameters).name, "(", ")") THEN Call("strip_parens", << Front(parameters) >>)
    ELSE parameters

\* The end of _get_method ("Looks like we got a method, not a function"); c
\* holds _get_method's local variables.
method_finish(c, b, body, modifiers) ==
    IF Len(c.return_type) > 1 /\ Last(c.return_type).name = "::"
    THEN LET s == Call("_get_return_type_and_class_name", << c.return_type >>)
         IN  IF s.exc # OK THEN Raise(b, s.exc)
             ELSE [b |-> b, exc |-> OK,
                   node |-> Method(c.indices.start, c.indices.end, c.name.name,
                                   s.class_name, s.return_type, c.parameters,
                                   c.specializations, modifiers, c.templated_types,
                                   body, b.namespace_stack)]
    ELSE [b |-> b, exc |-> OK,
          node |-> Function(c.indices.start, c.indices.end, c.name.name,
                            c.return_type, c.parameters, c.specializations,
                            modifiers, c.templated_types, body, b.namespace_stack,
                            c.initializers)]

\* "else: body = None" of _get_method: '= 0', '[...]', a pointer or reference
\* declarator, and the closing ';'.
method_no_body(c, b0, token0) ==
    LET e1 == IF token0.name = "=" THEN Call("_get_next_token", << b0 >>)
              ELSE [b |-> b0, exc |-> OK, token |-> token0]
    IN  IF e1.exc # OK THEN Raise(e1.b, e1.exc)
        ELSE
    LET modifiers == IF token0.name = "=" /\ e1.token.name = "0"
                     THEN BitOr(c.modifiers, FUNCTION_PURE_VIRTUAL) ELSE c.modifiers
        e2 == IF token0.name = "=" THEN Call("_get_next_token", << e1.b >>) ELSE e1
    IN  IF e2.exc # OK THEN Raise(e2.b, e2.exc)
        ELSE
    LET m == IF e2.token.name = "[" THEN Call("_get_matching_char", << e2.b, "[", "]" >>)
             ELSE [b |-> e2.b, exc |-> OK, tokens |-> << >>]
    IN  IF m.exc # OK THEN Raise(m.b, m.exc)
        ELSE
    LET e3 == IF e2.token.name = "[" THEN Call("_get_next_token", << m.b >>) ELSE e2
    IN  IF e3.exc # OK THEN Raise(e3.b, e3.exc)
        ELSE IF InStr(e3.token.name, "*", "&")
        THEN LET v == Call("_get_var_tokens_up_to", << e3.b, FALSE, { "(", ";" } >>)
                 tokens == c.parameters \o << e3.token >> \o v.tokens
             IN  IF v.exc # OK THEN Raise(v.b, v.exc)
                 ELSE IF v.last.name = "(" THEN Call("_get_method", << v.b, tokens, 0, Nothing, FALSE >>)
                 ELSE Call("_get_variable", << v.b, tokens >>)
        ELSE IF e3.token.name # ";" THEN Raise(e3.b, "ParseError")
        ELSE Call("method_finish", << c, e3.b, Nothing, modifiers >>)

\* "if token.name == '{': body = list(self.get_scope()) ... else: ..."
method_body(c, b, token) ==
    IF token.name = "{"
    THEN LET m == Call("_get_matching_char", << b, "{", "}" >>)
         IN  IF m.exc # OK THEN Raise(m.b, m.exc)
             ELSE Call("method_finish", << c, m.b, Some(Front(m.tokens)), c.modifiers >>)
    ELSE Call("method_no_body", << c, b, token >>)

\* "Handle pointer to functions."
method_pointer(c, b, token) ==
    IF token.name # "(" THEN Call("method_body", << c, b, token >>)
    ELSE LET return_type == Append(c.return_type, c.name)
             stripped == Call("strip_parens", << c.parameters >>)
         IN  IF stripped = << >> THEN Raise(b, "IndexError")
             ELSE
         LET name == Last(stripped)
             q == Call("_get_parameters", << b >>)
         IN  IF q.exc # OK THEN Raise(q.b, q.exc)
             ELSE
         LET r == Call("_get_next_token", << q.b >>)
         IN  IF r.exc # OK THEN Raise(r.b, r.exc)
             ELSE IF r.token.name # "{"
             THEN LET d == IF r.token.name = "=" THEN Call("_get_tokens_up_to", << r.b, ";" >>)
                           ELSE [b |-> r.b, exc |-> OK, tokens |-> << >>]
                      names == Names(return_type)
                  IN  IF d.exc # OK THEN Raise(d.b, d.exc)
                      ELSE [b |-> d.b, exc |-> OK,
                            node |-> Call("_create_variable", << d.b, c.indices, name.name,
                                                    c.indices.name, << >>,
                                                    { names[k] : k \in 1..Len(names) },
                                                    << >>, Join("", Names(d.tokens)) >>)]
             ELSE Call("method_body", << [c EXCEPT !.return_type = return_type, !.name = name,
                                                   !.parameters = Front(q.tokens)],
                                         r.b, r.token >>)

\* "Handle ctor initializers."
method_initializers(c, b, token) ==
    LET n == IF token.name = ":" THEN Call("initializers_loop", << b, token, << >> >>)
             ELSE [b |-> b, exc |-> OK, token |-> token, initializers |-> << >>]
    IN  IF n.exc # OK THEN Raise(n.b, n.exc)
        ELSE Call("method_pointer",
                  << [c EXCEPT !.initializers = n.initializers], n.b, n.token >>)

\* "Handle trailing return types.", the token that is put back for a ';',
\* and the assert_parse that follows.
method_trailing_return(c, b, token) ==
    LET v == IF token.name = "->"
             THEN Call("_get_var_tokens_up_to", << b, FALSE, { "{", ";" } >>)
             ELSE [b |-> b, exc |-> OK, tokens |-> c.return_type, last |-> token]
    IN  IF v.exc # OK THEN Raise(v.b, v.exc)
        ELSE IF v.last.name = "}" \/ v.last.token_type = PREPROCESSOR
        THEN Call("method_initializers",
                  << [c EXCEPT !.return_type = v.tokens],
                     _add_back_token(v.b, v.last), SEMICOLON >>)
        ELSE IF v.last.token_type # SYNTAX THEN Raise(v.b, "ParseError")
        ELSE Call("method_initializers",
                  << [c EXCEPT !.return_type = v.tokens], v.b, v.last >>)

\* The tail modifiers and "Handle ref-qualifiers."
method_ref_qualifier(c, b, token) ==
    LET t == Call("tail_loop", << b, token, c.modifiers >>)
    IN  IF t.exc # OK THEN Raise(t.b, t.exc)
        ELSE IF t.token.name \notin { "&", "&&" }
        THEN Call("method_trailing_return",
                  << [c EXCEPT !.modifiers = t.modifiers], t.b, t.token >>)
        ELSE
    LET q == Call("_get_next_token", << t.b >>)
    IN  IF q.exc # OK THEN Raise(q.b, q.exc)
        ELSE Call("method_trailing_return",
                  << [c EXCEPT !.modifiers = t.modifiers], q.b, q.token >>)

\* From "try: token = self._get_next_token()" to the ctor initializers.
method_tail(c) ==
    LET r == Call("_get_next_token", << c.b >>)
    IN  IF r.exc = "StopIteration"
        THEN Call("method_ref_qualifier", << c, r.b, SEMICOLON >>)
        ELSE IF r.exc # OK THEN Raise(r.b, r.exc)
        ELSE Call("method_ref_qualifier", << c, r.b, r.token >>)

\* _get_method
_get_method(b, return_type_and_name, modifiers0, templated_types, get_paren) ==
    LET p == Call("method_paren", << b, get_paren >>)
    IN  IF p.exc # OK THEN Raise(p.b, p.exc)
        ELSE
    LET n == Call("method_name", << return_type_and_name, p.specializations >>)
    IN  IF n.exc # OK THEN Raise(p.b, n.exc)
        ELSE
    LET modifiers == IF n.name.name = p.b.in_class /\ modifiers0 = 0
                     THEN BitOr(modifiers0, FUNCTION_CTOR) ELSE modifiers0
        q == Call("_get_parameters", << p.b >>)
    IN  IF q.exc # OK THEN Raise(q.b, q.exc)
        ELSE
    LET call == n.name.name = "operator" /\ Front(q.tokens) = << >>
        r == IF call THEN Call("_get_next_token", << q.b >>) ELSE [b |-> q.b, exc |-> OK]
    IN  IF r.exc # OK THEN Raise(r.b, r.exc)
        ELSE IF call /\ r.token.name # "(" THEN Raise(r.b, "ParseError")
        ELSE
    LET q2 == IF call THEN Call("_get_parameters", << r.b >>) ELSE q
    IN  IF q2.exc # OK THEN Raise(q2.b, q2.exc)
        ELSE Call("method_tail", <<
                 [b |-> q2.b,
                  name |-> IF call
                           THEN Token(NAME, "operator()", n.name.start, Last(q.tokens).end)
                           ELSE n.name,
                  return_type |-> n.return_type,
                  indices |-> IF n.return_type # << >> THEN n.return_type[1] ELSE n.name,
                  modifiers |-> modifiers, templated_types |-> templated_types,
                  specializations |-> n.specializations,
                  parameters |-> Front(q2.tokens), initializers |-> << >>] >>)

\* get_method
get_method(b, modifiers, templated_types) ==
    LET r == Call("_get_var_tokens_up_to_w_function", << b, FALSE, { "(" } >>)
    IN  IF r.exc # OK THEN Raise(r.b, r.exc)
        ELSE IF ~(Len(r.tokens) >= 1) THEN Raise(r.b, "AssertionError")
        ELSE Call("_get_method", << r.b, r.tokens, modifiers, templated_types, FALSE >>)

\* ------------------------------------------------------ classes, handlers

\* "while next_token.token_type == tokenize.PREPROCESSOR: next_token = ..."
skip_preprocessor(b, token) ==
    IF token.token_type # PREPROCESSOR THEN [b |-> b, exc |-> OK, token |-> token]
    ELSE LET r == Call("_get_next_token", << b >>)
         IN  IF r.exc # OK THEN Raise(r.b, r.exc) ELSE Call("skip_preprocessor", << r.b, r.token >>)

SPECIFIER == { "public", "protected", "private", "virtual" }

\* The "while True" loop of _get_bases at its head.
bases_loop(b, bases) ==
    LET t == Call("_get_next_token", << b >>)
    IN  IF t.exc # OK THEN Raise(t.b, t.exc)
        ELSE IF t.token.name \in SPECIFIER \/ t.token.token_type = PREPROCESSOR
        THEN Call("bases_loop", << t.b, bases >>)
        ELSE
    LET g == Call("get_name", << _add_back_token(t.b, t.token) >>)
    IN  IF g.exc # OK THEN Raise(g.b, g.exc)
        ELSE
    LET again == Len(g.tokens) > 2 /\ g.tokens[Len(g.tokens) - 1].name = "::"
                    /\ g.next_token.token_type = NAME
                    /\ g.next_token.name \notin SPECIFIER
        g2 == IF again THEN Call("get_name", << _add_back_token(g.b, g.next_token) >>) ELSE g
    IN  IF g2.exc # OK THEN Raise(g2.b, g2.exc)
        ELSE
    LET base == IF again THEN Front(g.tokens) \o g2.tokens ELSE g.tokens
        bases_ast == Call("to_type", << base >>)
        bases1 == IF Len(bases_ast) = 1 THEN Append(bases, bases_ast[1]) ELSE bases
        n == IF g2.next_token.name = ")" THEN Call("_get_next_token", << g2.b >>)
             ELSE [b |-> g2.b, exc |-> OK, token |-> g2.next_token]
    IN  IF n.exc # OK THEN Raise(n.b, n.exc)
        ELSE
    LET s == Call("skip_preprocessor", << n.b, n.token >>)
    IN  IF s.exc # OK THEN Raise(s.b, s.exc)
        ELSE IF s.token.name = "{"
        THEN [b |-> s.b, exc |-> OK, bases |-> bases1, token |-> s.token]
        ELSE Call("bases_loop", << s.b, bases1 >>)

\* _get_bases: (bases, token)
_get_bases(b) == Call("bases_loop", << b, << >> >>)

\* "Merge ctor initializers with class members": the body of a class after
\* the initial values of its ctor's initializers are written to the members.
merge_initializers(body, class_name) ==
    LET ctors == { k \in 1..Len(body) :
                     body[k].kind \in { "Function", "Method" } /\ body[k].name = class_name }
        initializers == IF ctors = {} THEN << >> ELSE body[SetMin(ctors)].initializers
        hits(var) == { k \in 1..Len(initializers) :
                         Len(initializers[k].value) = 1
                            /\ var.name = initializers[k].member.name }
        merged(var) ==
            IF var.kind # "VariableDeclaration" \/ hits(var) = {} THEN var
            ELSE [var EXCEPT !.initial_value =
                     initializers[CHOOSE k \in hits(var) : \A j \in hits(var) : j <= k]
                         .value[1].name]
    IN  [k \in 1..Len(body) |-> merged(body[k])]

\* The part of _get_class after the class head: token is what follows the
\* name (and the bases).
class_body(b, class_type, templated_types, class_token, class_name, name_tokens, bases, token) ==
    IF token.token_type = SYNTAX /\ token.name = "{"
    THEN LET name == IF class_name \in { None, "" } THEN "__unamed__" ELSE class_name
             ast == ASTBuilder(get_scope(b), name, b.namespace_stack)
             g == Call("generate_loop", << ast, << >> >>)
             b1 == g.b.tokens.owner
         IN  IF g.exc # OK THEN Raise(b1, g.exc)
             ELSE
         LET body == Call("merge_initializers", << g.nodes, class_name >>)
         IN  IF b1.handling_typedef
             THEN [b |-> b1, exc |-> OK,
                   node |-> Class(class_type, class_token.start, class_token.end,
                                  class_name, bases, templated_types, Some(body),
                                  b1.namespace_stack)]
             ELSE
         LET r == Call("_get_next_token", << b1 >>)
         IN  IF r.exc # OK THEN Raise(r.b, r.exc)
             ELSE IF r.token.token_type # NAME
             THEN IF r.token.token_type # SYNTAX \/ r.token.name # ";"
                  THEN Raise(r.b, "ParseError")
                  ELSE [b |-> r.b, exc |-> OK,
                        node |-> Class(class_type, class_token.start, class_token.end,
                                       class_name, bases, templated_types, Some(body),
                                       r.b.namespace_stack)]
             ELSE
         LET r2 == IF is_builtin_type(r.token.name) THEN Call("_get_next_token", << r.b >>) ELSE r
         IN  IF r2.exc # OK THEN Raise(r2.b, r2.exc)
             ELSE
         LET v == Call("_ignore_up_to", << r2.b, ";" >>)
             new_class == Class(class_type, class_token.start, class_token.end,
                                class_name, bases, Nothing, Some(body),
                                v.b.namespace_stack)
         IN  IF v.exc # OK THEN Raise(v.b, v.exc)
             ELSE [b |-> v.b, exc |-> OK,
                   node |-> VariableDeclaration(class_token.start, class_token.end,
                                r2.token.name,
                                [Type(class_token.start, class_token.end, None, << >>,
                                      << >>, "&" = r2.token.name, "*" = r2.token.name,
                                      "[" = r2.token.name)
                                 EXCEPT !.name_node = Some(new_class),
                                        !.modifiers = IF v.b.handling_const
                                                      THEN << "const" >> ELSE << >>],
                                "", v.b.namespace_stack)]
    ELSE IF ~b.handling_typedef
    THEN Call("_get_method", << b, << class_token >> \o name_tokens, 0, Nothing, FALSE >>)
    ELSE [b |-> _add_back_token(b, token), exc |-> OK,
          node |-> Class(class_type, class_token.start, class_token.end, class_name,
                         bases, templated_types, Nothing, b.namespace_stack)]

\* The part of _get_class from "bases = None": a forward declaration, an
\* inline forward declaration, the bases, and the rest.
class_head(b0, class_type, templated_types, class_token, class_name, name_tokens, token0) ==
    LET p == IF token0.token_type = PREPROCESSOR THEN Call("_get_next_token", << b0 >>)
             ELSE [b |-> b0, exc |-> OK, token |-> token0]
    IN  IF p.exc # OK THEN Raise(p.b, p.exc)
        ELSE IF p.token.token_type # SYNTAX
        THEN Call("class_body", << p.b, class_type, templated_types, class_token, class_name,
                                   name_tokens, Nothing, p.token >>)
        ELSE IF p.token.name = ";"
        THEN [b |-> p.b, exc |-> OK,
              node |-> Class(class_type, class_token.start, class_token.end, class_name,
                             Nothing, templated_types, Nothing, p.b.namespace_stack)]
        ELSE IF InStr(p.token.name, "*", "&")
        THEN LET n1 == Call("_get_next_token", << p.b >>)
             IN  IF n1.exc # OK THEN Raise(n1.b, n1.exc)
                 ELSE
             LET n2 == Call("_get_next_token", << n1.b >>)
             IN  IF n2.exc # OK THEN Raise(n2.b, n2.exc)
                 ELSE IF n2.token.name = ";"
                 THEN [b |-> n2.b, exc |-> OK,
                       node |-> Call("_create_variable", << n2.b, class_token, n1.token.name,
                                               class_name, << "class" >>, { p.token.name },
                                               << >>, "" >>)]
                 ELSE Call("get_method", << _add_back_tokens(n2.b,
                                                << class_token, p.token, n1.token, n2.token >>),
                                            FUNCTION_NONE, Nothing >>)
        ELSE IF p.token.name = ":"
        THEN LET s == Call("_get_bases", << p.b >>)
             IN  IF s.exc # OK THEN Raise(s.b, s.exc)
                 ELSE Call("class_body", << s.b, class_type, templated_types, class_token,
                                            class_name, name_tokens, Some(s.bases), s.token >>)
        ELSE Call("class_body", << p.b, class_type, templated_types, class_token, class_name,
                                   name_tokens, Nothing, p.token >>)

\* _get_class
_get_class(b, class_type, templated_types) ==
    LET c == Call("_get_next_token", << b >>)
    IN  IF c.exc # OK THEN Raise(c.b, c.exc)
        ELSE IF c.token.token_type # NAME
        THEN IF c.token.token_type # SYNTAX THEN Raise(c.b, "ParseError")
             ELSE Call("class_head", << c.b, class_type, templated_types, c.token, None, << >>, c.token >>)
        ELSE
    LET g == Call("get_name", << _add_back_token(c.b, c.token) >>)
    IN  IF g.exc # OK THEN Raise(g.b, g.exc)
        ELSE
    LET pointer == g.b.handling_typedef /\ InStr(g.next_token.name, "*", "&")
        attr == ~g.b.handling_typedef /\ g.next_token.token_type = NAME
        n == IF pointer THEN Call("_get_next_token", << g.b >>)
             ELSE IF attr THEN Call("get_name", << _add_back_token(g.b, g.next_token) >>)
             ELSE g
    IN  IF n.exc # OK THEN Raise(n.b, n.exc)
        ELSE
    LET name_tokens == IF pointer THEN Append(g.tokens, g.next_token)
                       ELSE IF attr /\ (Len(n.tokens) > 1 \/ n.tokens[1].name # "final")
                       THEN n.tokens
                       ELSE g.tokens
        token == IF pointer THEN n.token ELSE n.next_token
        types == Call("to_type", << name_tokens >>)
    IN  IF types = << >> THEN Raise(n.b, "IndexError")
        ELSE IF types[1].name = "" THEN Raise(n.b, "ParseError")
        ELSE Call("class_head", << n.b, class_type, templated_types, c.token, types[1].name,
                                   name_tokens, token >>)

\* _handle_class_and_struct
_handle_class_and_struct(b, class_type) ==
    IF b.handling_typedef THEN Call("_get_class", << b, class_type, Nothing >>)
    ELSE LET g == Call("get_name", << b >>)
         IN  IF g.exc # OK THEN Raise(g.b, g.exc)
             ELSE IF g.next_token.token_type = NAME \/ InStr(g.next_token.name, "*", "&")
             THEN LET v == Call("_get_var_tokens_up_to", << g.b, FALSE, { "(", ";", "{" } >>)
                      tokens == g.tokens \o << g.next_token >> \o v.tokens
                  IN  IF v.exc # OK THEN Raise(v.b, v.exc)
                      ELSE IF v.last.name = "{"
                      THEN Call("_get_class", << _add_back_tokens(_add_back_token(v.b, v.last), tokens),
                                                 class_type, Nothing >>)
                      ELSE IF v.last.name = "("
                      THEN Call("_get_method", << v.b, tokens, 0, Nothing, FALSE >>)
                      ELSE Call("_get_variable", << v.b, tokens >>)
             ELSE Call("_get_class", << _add_back_tokens(_add_back_token(g.b, g.next_token), g.tokens),
                                        class_type, Nothing >>)

\* A handler that returns no node.
NoNode(b) == [b |-> b, exc |-> OK, node |-> Nothing]
\* A call that returns a node: the node as the handler's result.
Returned(r) == IF r.exc # OK THEN r ELSE [b |-> r.b, exc |-> OK, node |-> Some(r.node)]
\* Mutant: an anonymous namespace opens like a bare brace block.
open_namespace_SkipsAnonymous(b, name) ==
    IF name = None THEN [b EXCEPT !.namespaces = Append(b.namespaces, FALSE)]
    ELSE [b EXCEPT !.namespace_stack = Append(b.namespace_stack, name),
                   !.namespaces = Append(b.namespaces, TRUE)]
\* "self.namespace_stack.append(name); self.namespaces.append(True)": name is
\* None for an anonymous namespace.
open_namespace(b, name) ==
    [b EXCEPT !.namespace_stack = Append(b.namespace_stack, name),
              !.namespaces = Append(b.namespaces, TRUE)]

\* handle_namespace
handle_namespace(b) ==
    LET f == Call("_get_next_token", << b >>)
    IN  IF f.exc # OK THEN Raise(f.b, f.exc)
        ELSE
    LET named == f.token.token_type = NAME
        name == IF named THEN f.token.name ELSE None
        t == IF named THEN Call("_get_next_token", << f.b >>) ELSE f
    IN  IF t.exc # OK THEN Raise(t.b, t.exc)
        ELSE IF t.token.token_type # SYNTAX THEN Raise(t.b, "ParseError")
        ELSE IF t.token.name = "="
        THEN LET g == Call("get_name", << t.b >>)
             IN  IF g.exc # OK THEN Raise(g.b, g.exc)
                 ELSE IF g.next_token.name # ";" THEN Raise(g.b, "ParseError")
                 ELSE NoNode(g.b)
        ELSE IF t.token.name # "{" THEN Raise(t.b, "ParseError")
        ELSE NoNode(open_namespace(t.b, name))

\* handle_public, handle_protected, handle_private
handle_access(b) == IF b.in_class = None THEN Raise(b, "ParseError") ELSE NoNode(b)

\* handle_const
handle_const(b) ==
    LET t == Call("_get_next_token", << [b EXCEPT !.handling_const = TRUE] >>)
    IN  IF t.exc # OK THEN Raise(t.b, t.exc)
        ELSE LET r == Call("_generate_one", << t.b, t.token >>)
             IN  IF r.exc # OK THEN r
                 ELSE [r EXCEPT !.b = [r.b EXCEPT !.handling_const = FALSE]]

\* handle_virtual
handle_virtual(b) ==
    LET t0 == Call("_get_next_token", << b >>)
    IN  IF t0.exc # OK THEN Raise(t0.b, t0.exc)
        ELSE
    LET t == IF t0.token.name = "inline" THEN Call("_get_next_token", << t0.b >>) ELSE t0
    IN  IF t.exc # OK THEN Raise(t.b, t.exc)
        ELSE IF t.token.token_type = SYNTAX /\ t.token.name = "~"
        THEN Returned(Call("get_method", << t.b, FUNCTION_VIRTUAL + FUNCTION_DTOR, Nothing >>))
        ELSE LET v == Call("_get_tokens_up_to", << t.b, "(" >>)
             IN  IF v.exc # OK THEN Raise(v.b, v.exc)
                 ELSE Returned(Call("_get_method", << v.b, << t.token >> \o v.tokens,
                                                      FUNCTION_VIRTUAL, Nothing, FALSE >>))

\* handle_explicit
handle_explicit(b) ==
    IF b.in_class = None THEN Raise(b, "AssertionError")
    ELSE Returned(Call("get_method", << b, FUNCTION_CTOR, Nothing >>))

\* handle_enum from "Handle underlying type" on; name is the enum's name or
\* None.
enum_tail(b, name, token0) ==
    LET u == IF token0.token_type = SYNTAX /\ token0.name = ":"
             THEN Call("_get_var_tokens_up_to", << b, FALSE, { "{", ";" } >>)
             ELSE [b |-> b, exc |-> OK, last |-> token0]
    IN  IF u.exc # OK THEN Raise(u.b, u.exc)
        ELSE IF u.last.token_type = SYNTAX /\ u.last.name = ";"
        THEN [b |-> u.b, exc |-> OK,
              node |-> Enum(u.last.start, u.last.end, name, Nothing, u.b.namespace_stack)]
        ELSE IF u.last.token_type = SYNTAX /\ u.last.name = "{"
        THEN LET f == Call("_get_matching_char", << u.b, "{", "}" >>)
             IN  IF f.exc # OK THEN Raise(f.b, f.exc)
                 ELSE LET n == Call("_get_next_token", << f.b >>)
                          new_type == Enum(u.last.start, u.last.end, name,
                                           Some(Front(f.tokens)), f.b.namespace_stack)
                      IN  IF n.exc # OK THEN Raise(n.b, n.exc)
                          ELSE IF n.token.token_type # NAME
                          THEN [b |-> n.b, exc |-> OK, node |-> new_type]
                          ELSE [b |-> n.b, exc |-> OK,
                                node |-> VariableDeclaration(n.token.start, n.token.end,
                                            n.token.name,
                                            [Type(n.token.start, n.token.end, None, << >>,
                                                  << >>, FALSE, FALSE, FALSE)
                                             EXCEPT !.name_node = Some(new_type)],
                                            "", n.b.namespace_stack)]
        ELSE IF u.last.token_type # NAME THEN Raise(u.b, "ParseError")
        ELSE [b |-> u.b, exc |-> OK,
              node |-> Call("_create_variable", << u.b, u.last, u.last.name, name, << >>,
                                                   {}, << >>, "" >>)]

\* handle_enum after get_name, whose next token is a name.
enum_named(b, name_tokens, name, token) ==
    IF b.handling_typedef
    THEN [b |-> _add_back_token(b, token), exc |-> OK,
          node |-> Enum(token.start, token.end, name, Nothing, b.namespace_stack)]
    ELSE LET n == Call("_get_next_token", << b >>)
         IN  IF n.exc # OK THEN Raise(n.b, n.exc)
             ELSE IF n.token.name # "("
             THEN Call("enum_tail", << _add_back_token(n.b, n.token), name, token >>)
             ELSE Call("_get_method", << n.b, Append(name_tokens, token), 0, Nothing, FALSE >>)

\* handle_enum
handle_enum(b) ==
    LET t == Call("_get_next_token", << b >>)
    IN  IF t.exc # OK THEN Raise(t.b, t.exc)
        ELSE LET g == Call("get_name", << IF t.token.name # "class"
                                            THEN _add_back_token(t.b, t.token) ELSE t.b >>)
                 name == IF g.tokens = << >> THEN None ELSE Join("", Names(g.tokens))
             IN  IF g.exc # OK THEN Raise(g.b, g.exc)
                 ELSE IF g.next_token.token_type = NAME
                 THEN Call("enum_named", << g.b, g.tokens, name, g.next_token >>)
                 ELSE Call("enum_tail", << g.b, name, g.next_token >>)

\* "result[key] = (type_name, default)": a dict as a function of its keys.
DictSet(result, key, type_name, default) ==
    [k \in DOMAIN result \cup { key } |->
        IF k = key THEN [type_name |-> type_name, default |-> default] ELSE result[k]]
\* The while loop of _get_templated_types at its test.
templated_types_loop(tokens, len_tokens, i, result) ==
    IF ~(i < len_tokens) THEN [exc |-> OK, result |-> result]
    ELSE IF is_keyword(tokens[i + 1].name) \/ tokens[i + 1].name \in { ",", "." }
    THEN Call("templated_types_loop", << tokens, len_tokens, i + 1, result >>)
    ELSE IF ~(i + 1 < len_tokens)
    THEN Call("templated_types_loop", << tokens, len_tokens, i + 1,
                 DictSet(result, tokens[i + 1].name, Nothing, Nothing) >>)
    ELSE IF tokens[i + 2].name = "="
    THEN IF ~(i + 2 < len_tokens) THEN [exc |-> "ParseError"]
         ELSE LET g == Call("get_name", << [it |-> Slice(tokens, i + 2, Len(tokens))] >>)
              IN  IF g.exc # OK THEN [exc |-> g.exc]
                  ELSE Call("templated_types_loop", << tokens, len_tokens,
                               i + 2 + Len(g.tokens),
                               DictSet(result, tokens[i + 1].name, Nothing, Some(g.tokens)) >>)
    ELSE IF tokens[i + 2].name # ","
    THEN Call("templated_types_loop", << tokens, len_tokens, i + 2,
                 DictSet(result, tokens[i + 2].name, Some(tokens[i + 1]), Nothing) >>)
    ELSE Call("templated_types_loop", << tokens, len_tokens, i + 2,
                 DictSet(result, tokens[i + 1].name, Nothing, Nothing) >>)

\* _get_templated_types: a dict from the parameter's name to (type_name,
\* default).
_get_templated_types(b) ==
    LET m == Call("_get_matching_char", << b, "<", ">" >>)
    IN  IF m.exc # OK THEN Raise(m.b, m.exc)
        ELSE LET r == Call("templated_types_loop", << m.tokens, Len(m.tokens) - 1, 0, << >> >>)
             IN  IF r.exc # OK THEN Raise(m.b, r.exc)
                 ELSE [b |-> m.b, exc |-> OK, result |-> r.result]

\* handle_template from the loop "while token.token_type == PREPROCESSOR" on.
template_after(b, templated_types, token) ==
    IF token.token_type = PREPROCESSOR
    THEN LET n == Call("_get_next_token", << b >>)
         IN  IF n.exc # OK THEN Raise(n.b, n.exc)
             ELSE Call("template_after", << n.b, templated_types, n.token >>)
    ELSE IF token.token_type = NAME /\ token.name = "class"
    THEN Returned(Call("_get_class", << b, "Class", templated_types >>))
    ELSE IF token.token_type = NAME /\ token.name = "struct"
    THEN Returned(Call("_get_class", << b, "Struct", templated_types >>))
    ELSE IF token.token_type = NAME /\ token.name = "union"
    THEN Returned(Call("_get_class", << b, "Union", templated_types >>))
    ELSE IF token.token_type = NAME /\ token.name = "friend"
    THEN Raise(b, "NotModelled")
    ELSE IF token.token_type = NAME /\ token.name = "template"
    THEN Call("handle_template", << b >>)
    ELSE LET r == Call("_get_var_tokens_up_to_w_function",
                       << _add_back_token(b, token), FALSE, { "(", ";" } >>)
         IN  IF r.exc # OK THEN Raise(r.b, r.exc)
             ELSE IF r.last.name = "("
             THEN Returned(Call("get_method",
                      << _add_back_tokens(r.b, Append(r.tokens, r.last)),
                         FUNCTION_NONE, templated_types >>))
             ELSE NoNode(_add_back_tokens(r.b, Append(r.tokens, r.last)))

\* handle_template
handle_template(b) ==
    LET t == Call("_get_next_token", << b >>)
    IN  IF t.exc # OK THEN Raise(t.b, t.exc)
        ELSE IF t.token.token_type = SYNTAX /\ t.token.name = "<"
        THEN LET tt == Call("_get_templated_types", << t.b >>)
             IN  IF tt.exc # OK THEN Raise(tt.b, tt.exc)
                 ELSE LET n == Call("_get_next_token", << tt.b >>)
                      IN  IF n.exc # OK THEN Raise(n.b, n.exc)
                          ELSE Call("template_after", << n.b, Some(tt.result), n.token >>)
        ELSE Call("template_after", << t.b, Nothing, t.token >>)

\* The handlers that the modelled sources do not call.
NOT_MODELLED == { "friend", "typedef", "using" }
\* The names X for which the builder has a method handle_X.
HANDLERS ==
    { "class", "struct", "union", "const", "inline", "extern", "virtual", "public",
      "protected", "private", "typename", "namespace", "explicit", "operator", "enum", "template" }
        \cup NOT_MODELLED

\* method() for method = getattr(self, 'handle_' + name), name in HANDLERS.
handle(b, name) ==
    IF name = "namespace" THEN Call("handle_namespace", << b >>)
    ELSE IF name = "class" THEN Returned(Call("_handle_class_and_struct", << b, "Class" >>))
    ELSE IF name = "struct" THEN Returned(Call("_handle_class_and_struct", << b, "Struct" >>))
    ELSE IF name = "union" THEN Returned(Call("_handle_class_and_struct", << b, "Union" >>))
    ELSE IF name \in { "public", "protected", "private" } THEN Call("handle_access", << b >>)
    ELSE IF name = "const" THEN Call("handle_const", << b >>)
    ELSE IF name = "virtual" THEN Call("handle_virtual", << b >>)
    ELSE IF name = "explicit" THEN Call("handle_explicit", << b >>)
    ELSE IF name = "enum" THEN Returned(Call("handle_enum", << b >>))
    ELSE IF name = "template" THEN Call("handle_template", << b >>)
    ELSE IF name \in NOT_MODELLED THEN Raise(b, "NotModelled")
    ELSE NoNode(b)

\* ---------------------------------------------------------- _generate_one
\* "for i, elt in reversed(list(enumerate(temp_tokens)))": some '=' is not
\* preceded by 'operator' (temp_tokens[-1] precedes temp_tokens[0]).
HasAssignment(temp_tokens) ==
    \E k \in 1..Len(temp_tokens) :
        /\ temp_tokens[k].name = "="
        /\ temp_tokens[IF k = 1 THEN Len(temp_tokens) ELSE k - 1].name # "operator"

\* The rest of the NAME branch once temp_tokens and last_token are final.
declaration_end(b, temp_tokens, last_token) ==
    IF last_token.name = ";" THEN Returned(Call("_get_variable", << b, temp_tokens >>))
    ELSE IF last_token.name = "{"
    THEN LET b1 == _add_back_tokens(_add_back_token(b, last_token), Tail(temp_tokens))
         IN  IF temp_tokens[1].name \in HANDLERS THEN Call("handle", << b1, temp_tokens[1].name >>)
             ELSE NoNode(b1)
    ELSE Returned(Call("_get_method", << b, temp_tokens, 0, Nothing, FALSE >>))

\* "Handle data or function declaration/definition."
declaration(b, token) ==
    LET v == Call("_get_var_tokens_up_to", << b, TRUE, { "(", ";", "{" } >>)
    IN  IF v.exc # OK THEN Raise(v.b, v.exc)
        ELSE
    LET temp0 == << token >> \o v.tokens
    IN  IF v.last.name \notin { "(", "{" } THEN Call("declaration_end", << v.b, temp0, v.last >>)
        ELSE IF Last(temp0).name = "static_assert"
        THEN LET s == Call("_ignore_up_to", << v.b, ";" >>)
             IN  IF s.exc # OK THEN Raise(s.b, s.exc) ELSE NoNode(s.b)
        ELSE IF Last(temp0).name = "__declspec"
        THEN LET s == Call("_get_parameters", << v.b >>)
             IN  IF s.exc # OK THEN Raise(s.b, s.exc) ELSE NoNode(s.b)
        ELSE
    LET attribute == Last(temp0).name = "__attribute__"
        p == IF attribute THEN Call("_get_parameters", << v.b >>) ELSE [b |-> v.b, exc |-> OK]
    IN  IF p.exc # OK THEN Raise(p.b, p.exc)
        ELSE
    LET a == IF attribute THEN Call("_get_var_tokens_up_to", << p.b, TRUE, { "(", ";", "{" } >>)
             ELSE [b |-> v.b, exc |-> OK, tokens |-> << >>, last |-> v.last]
    IN  IF a.exc # OK THEN Raise(a.b, a.exc)
        ELSE
    LET temp1 == IF attribute THEN Front(temp0) \o a.tokens ELSE temp0
    IN  IF ~HasAssignment(temp1) THEN Call("declaration_end", << a.b, temp1, a.last >>)
        ELSE LET e == Call("_get_var_tokens_up_to", << a.b, FALSE, { ";" } >>)
             IN  IF e.exc # OK THEN Raise(e.b, e.exc)
                 ELSE Call("declaration_end", << e.b, Append(temp1, a.last) \o e.tokens, e.last >>)

\* ---- preprocessor directives; the text of a directive is handled as its
\* characters.
\* The characters str.isspace() holds of.
WHITESPACE == { " ", "\t", "\n", "\r", "\f" }
RECURSIVE lstrip(_)
lstrip(cs) == IF cs # << >> /\ Head(cs) \in WHITESPACE THEN lstrip(Tail(cs)) ELSE cs
RECURSIVE rstrip(_)
rstrip(cs) == IF cs # << >> /\ Last(cs) \in WHITESPACE THEN rstrip(Front(cs)) ELSE cs
strip(cs) == rstrip(lstrip(cs))
startswith(cs, prefix) == Len(cs) >= Len(prefix) /\ SubSeq(cs, 1, Len(prefix)) = prefix
\* cs[k:]
From(cs, k) == SubSeq(cs, k + 1, Len(cs))
\* "if name.startswith('\\'): name = name[1:].strip()"
drop_backslash(cs) == IF startswith(cs, << "\\" >>) THEN strip(From(cs, 1)) ELSE cs

RECURSIVE define_loop(_, _, _)
\* "for i, c in enumerate(name)" of a #define, from index k on: the name, the
\* value, and whether the name is added to self.define.
define_loop(name, k, paren) ==
    IF k >= Len(name) THEN [name |-> name, value |-> << >>, add |-> FALSE]
    ELSE LET c == name[k + 1]
         IN  IF paren = 0 /\ c \in WHITESPACE
             THEN [name |-> SubSeq(name, 1, k), value |-> lstrip(From(name, k)), add |-> FALSE]
             ELSE IF c = ")"
             THEN [name |-> SubSeq(name, 1, paren), value |-> lstrip(From(name, k + 1)),
                   add |-> TRUE]
             ELSE define_loop(name, k + 1, IF c = "(" THEN k ELSE paren)

\* The PREPROCESSOR branch of _generate_one.  The builder has no include
\* directories (builder_from_source(source, filename, [], [])), so no file is
\* looked up for an #include.
preprocessor(b, token) ==
    LET name == lstrip(From(Chars(token.name), 1))
    IN  IF startswith(name, Chars("include"))
        THEN LET stripped == strip(From(name, 7))
                 file == drop_backslash(stripped)
             IN  IF stripped = << >> THEN Raise(b, "AssertionError")
                 ELSE IF file = << >> THEN Raise(b, "IndexError")
                 ELSE IF file[1] \in { "<", "\"" }
                 THEN IF Last(file) \notin { ">", "\"" } THEN Raise(b, "ParseError")
                      ELSE [b |-> b, exc |-> OK,
                            node |-> Some(Include(token.start, token.end,
                                                  Str(SubSeq(file, 2, Len(file) - 1)),
                                                  file[1] = "<"))]
                 ELSE [b |-> b, exc |-> OK,
                       node |-> Some(Include(token.start, token.end, Str(file), TRUE))]
        ELSE IF startswith(name, Chars("define"))
        THEN LET stripped == strip(From(name, 6))
                 d == define_loop(drop_backslash(stripped), 0, 0)
             IN  IF stripped = << >> THEN Raise(b, "AssertionError")
                 ELSE [b |-> IF d.add THEN [b EXCEPT !.define = @ \cup { Str(d.name) }] ELSE b,
                       exc |-> OK,
                       node |-> Some(Define(token.start, token.end, Str(d.name),
                                            Str(drop_backslash(d.value))))]
        ELSE IF startswith(name, Chars("undef"))
        THEN LET stripped == strip(From(name, 5))
             IN  IF stripped = << >> THEN Raise(b, "AssertionError")
                 ELSE NoNode([b EXCEPT !.define = @ \ { Str(stripped) }])
        ELSE NoNode(b)

\* _generate_one: the node it returns is Some(node), and Nothing for None.
_generate_one(b, token) ==
    IF token.token_type = NAME
    THEN IF is_keyword(token.name) /\ ~is_builtin_type(token.name)
         THEN IF token.name \notin HANDLERS THEN Raise(b, "ParseError")
              ELSE Call("handle", << b, token.name >>)
         ELSE Call("declaration", << b, token >>)
    ELSE IF token.token_type = SYNTAX
    THEN IF token.name = "~" /\ b.in_class # None
         THEN LET t == Call("_get_next_token", << b >>)
              IN  IF t.exc # OK THEN Raise(t.b, t.exc)
                  ELSE Returned(Call("_get_method", << t.b, << t.token >>, FUNCTION_DTOR, Nothing, TRUE >>))
         ELSE NoNode(b)
    ELSE IF token.token_type = PREPROCESSOR THEN preprocessor(b, token)
    ELSE NoNode(b)

\* ---------------------------------------------------------------- generate
\* Mutant: a closing brace pops the namespace stack whatever its marker says.
CloseBrace_PopsAlways(b) ==
    IF b.namespaces = << >> THEN [b |-> b, exc |-> OK]
    ELSE IF b.namespace_stack = << >> THEN [b |-> b, exc |-> OK]
    ELSE [b |-> [b EXCEPT !.namespaces = Front(b.namespaces),
                          !.namespace_stack = Front(b.namespace_stack)],
          exc |-> OK]
\* "if self.namespaces and self.namespaces.pop(): self.namespace_stack.pop()"
CloseBrace(b) ==
    IF b.namespaces = << >> THEN [b |-> b, exc |-> OK]
    ELSE IF ~Last(b.namespaces)
    THEN [b |-> [b EXCEPT !.namespaces = Front(b.namespaces)], exc |-> OK]
    ELSE IF b.namespace_stack = << >>
    THEN Raise([b EXCEPT !.namespaces = Front(b.namespaces)], "IndexError")
    ELSE [b |-> [b EXCEPT !.namespaces = Front(b.namespaces),
                          !.namespace_stack = Front(b.namespace_stack)],
          exc |-> OK]

\* Mutant: a bare '{' is marked as the brace of a namespace.
generate_step_MarksBraceAsNamespace(b, token) ==
    IF token.name = "{"
    THEN [b |-> [b EXCEPT !.namespaces = Append(b.namespaces, TRUE)], exc |-> OK,
          nodes |-> << >>]
    ELSE IF token.name = "}"
    THEN LET c == CloseBrace(b) IN [b |-> c.b, exc |-> c.exc, nodes |-> << >>]
    ELSE LET r == Call("_generate_one", << b, token >>)
         IN  IF r.exc = "StopIteration" THEN [b |-> r.b, exc |-> OK, nodes |-> << >>]
             ELSE IF r.exc # OK THEN [b |-> r.b, exc |-> r.exc, nodes |-> << >>]
             ELSE [b |-> r.b, exc |-> OK, nodes |-> r.node]
\* One iteration of the loop of generate() once its token is read: the
\* builder after it, how it ended, and the nodes it yields.
generate_step(b, token) ==
    IF token.name = "{"
    THEN [b |-> [b EXCEPT !.namespaces = Append(b.namespaces, FALSE)], exc |-> OK,
          nodes |-> << >>]
    ELSE IF token.name = "}"
    THEN LET c == CloseBrace(b) IN [b |-> c.b, exc |-> c.exc, nodes |-> << >>]
    ELSE LET r == Call("_generate_one", << b, token >>)
         IN  IF r.exc = "StopIteration" THEN [b |-> r.b, exc |-> OK, nodes |-> << >>]
             ELSE IF r.exc # OK THEN [b |-> r.b, exc |-> r.exc, nodes |-> << >>]
             ELSE [b |-> r.b, exc |-> OK, nodes |-> r.node]

\* One iteration of "while True" in generate(): over is TRUE when the
\* stream is exhausted and the loop breaks.
generate_iteration(b) ==
    LET t == Call("_get_next_token", << b >>)
    IN  IF t.exc = "StopIteration"
        THEN [b |-> t.b, exc |-> OK, nodes |-> << >>, over |-> TRUE]
        ELSE IF t.exc # OK
        THEN [b |-> t.b, exc |-> t.exc, nodes |-> << >>, over |-> TRUE]
        ELSE LET s == Call("generate_step", << t.b, t.token >>)
             IN  [b |-> s.b, exc |-> s.exc, nodes |-> s.nodes, over |-> s.exc # OK]

\* list(ast.generate()): the loop of generate() run to its end.
generate_loop(b, nodes) ==
    LET s == Call("generate_iteration", << b >>)
    IN  IF s.over THEN [b |-> s.b, exc |-> s.exc, nodes |-> nodes \o s.nodes]
        ELSE Call("generate_loop", << s.b, nodes \o s.nodes >>)

\* ------------------------------------------------------------------- Call
\* The method (or part of a method) called name, applied to the arguments a.
Call(name, a) ==
    CASE name = "_get_next_token" -> _get_next_token(a[1])
      [] name = "get_scope_next" -> get_scope_next(a[1])
      [] name = "Pull" -> Pull(a[1])
      [] name = "matching_loop" -> matching_loop(a[1], a[2], a[3], a[4], a[5])
      [] name = "_get_matching_char" -> _get_matching_char(a[1], a[2], a[3])
      [] name = "_get_parameters" -> _get_parameters(a[1])
      [] name = "var_tokens_loop" -> var_tokens_loop(a[1], a[2], a[3], a[4], a[5], a[6], a[7])
      [] name = "_get_var_tokens_up_to" -> _get_var_tokens_up_to(a[1], a[2], a[3])
      [] name = "_get_var_tokens_up_to_w_function" -> _get_var_tokens_up_to_w_function(a[1], a[2], a[3])
      [] name = "_get_tokens_up_to" -> _get_tokens_up_to(a[1], a[2])
      [] name = "_ignore_up_to" -> _ignore_up_to(a[1], a[2])
      [] name = "get_name_loop" -> get_name_loop(a[1], a[2], a[3], a[4])
      [] name = "get_name" -> get_name(a[1])
      [] name = "_get_template_end" -> _get_template_end(a[1], a[2])
      [] name = "template_end_loop" -> template_end_loop(a[1], a[2], a[3])
      [] name = "to_type" -> to_type(a[1])
      [] name = "to_type_loop" -> to_type_loop(a[1], a[2], a[3])
      [] name = "add_type" -> add_type(a[1])
      [] name = "default_loop" -> default_loop(a[1], a[2], a[3])
      [] name = "parts_loop" -> parts_loop(a[1], a[2], a[3])
      [] name = "declaration_to_parts" -> declaration_to_parts(a[1], a[2])
      [] name = "create_return_type" -> create_return_type(a[1])
      [] name = "get_template_indices" -> get_template_indices(a[1])
      [] name = "_create_variable" -> _create_variable(a[1], a[2], a[3], a[4], a[5], a[6], a[7], a[8])
      [] name = "_get_variable" -> _get_variable(a[1], a[2])
      [] name = "name_split_loop" -> name_split_loop(a[1], a[2], a[3], a[4])
      [] name = "_get_return_type_and_class_name" -> _get_return_type_and_class_name(a[1])
      [] name = "template_ctor_loop" -> template_ctor_loop(a[1], a[2], a[3])
      [] name = "method_name" -> method_name(a[1], a[2])
      [] name = "method_paren" -> method_paren(a[1], a[2])
      [] name = "skip_parens" -> skip_parens(a[1], a[2])
      [] name = "tail_loop" -> tail_loop(a[1], a[2], a[3])
      [] name = "initializers_loop" -> initializers_loop(a[1], a[2], a[3])
      [] name = "strip_parens" -> strip_parens(a[1])
      [] name = "method_finish" -> method_finish(a[1], a[2], a[3], a[4])
      [] name = "method_no_body" -> method_no_body(a[1], a[2], a[3])
      [] name = "method_body" -> method_body(a[1], a[2], a[3])
      [] name = "method_pointer" -> method_pointer(a[1], a[2], a[3])
      [] name = "method_tail" -> method_tail(a[1])
      [] name = "method_ref_qualifier" -> method_ref_qualifier(a[1], a[2], a[3])
      [] name = "method_trailing_return" -> method_trailing_return(a[1], a[2], a[3])
      [] name = "method_initializers" -> method_initializers(a[1], a[2], a[3])
      [] name = "_get_method" -> _get_method(a[1], a[2], a[3], a[4], a[5])
      [] name = "get_method" -> get_method(a[1], a[2], a[3])
      [] name = "skip_preprocessor" -> skip_preprocessor(a[1], a[2])
      [] name = "bases_loop" -> bases_loop(a[1], a[2])
      [] name = "_get_bases" -> _get_bases(a[1])
      [] name = "merge_initializers" -> merge_initializers(a[1], a[2])
      [] name = "class_body" -> class_body(a[1], a[2], a[3], a[4], a[5], a[6], a[7], a[8])
      [] name = "class_head" -> class_head(a[1], a[2], a[3], a[4], a[5], a[6], a[7])
      [] name = "_get_class" -> _get_class(a[1], a[2], a[3])
      [] name = "_handle_class_and_struct" -> _handle_class_and_struct(a[1], a[2])
      [] name = "handle_namespace" -> handle_namespace(a[1])
      [] name = "handle_access" -> handle_access(a[1])
      [] name = "handle_const" -> handle_const(a[1])
      [] name = "handle_virtual" -> handle_virtual(a[1])
      [] name = "handle_explicit" -> handle_explicit(a[1])
      [] name = "handle" -> handle(a[1], a[2])
      [] name = "declaration_end" -> declaration_end(a[1], a[2], a[3])
      [] name = "handle_enum" -> handle_enum(a[1])
      [] name = "templated_types_loop" -> templated_types_loop(a[1], a[2], a[3], a[4])
      [] name = "_get_templated_types" -> _get_templated_types(a[1])
      [] name = "template_after" -> template_after(a[1], a[2], a[3])
      [] name = "handle_template" -> handle_template(a[1])
      [] name = "enum_named" -> enum_named(a[1], a[2], a[3], a[4])
      [] name = "enum_tail" -> enum_tail(a[1], a[2], a[3])
      [] name = "add_parameter" -> add_parameter(a[1])
      [] name = "parameters_loop" -> parameters_loop(a[1], a[2], a[3])
      [] name = "to_parameters" -> to_parameters(a[1])
      [] name = "declaration" -> declaration(a[1], a[2])
      [] name = "_generate_one" -> _generate_one(a[1], a[2])
      [] name = "generate_step" -> generate_step(a[1], a[2])
      [] name = "generate_iteration" -> generate_iteration(a[1])
      [] name = "generate_loop" -> generate_loop(a[1], a[2])

\* ------------------------------------------------ modelled builder sources
\* The number of fragments of a modelled nesting of blocks.
MaxBlocks == 5
\* The number of declarations of a modelled source of declarations.
MaxDecls == 2

\* Namespace blocks, bare brace blocks and forward declarations, in any
\* order and nesting.
BlockFrags == { "namespace A {", "namespace {", "{", "}", "class Foo;" }
BlockSources == { Chars(Join(" ", fs)) : fs \in SeqsUpTo(BlockFrags, MaxBlocks) }

NAMESPACE_ONE_CLOSED ==
    Chars("namespace A { namespace B {} namespace C { class Foo; } }")
NAMESPACE_ANONYMOUS_INSIDE ==
    Chars("namespace A { namespace { namespace B { class Foo; } } }")

\* Declarations and definitions, at the top level or in a namespace.
DeclFrags ==
    { "class Foo;",
      "auto f = [] { return 1; };",
      "int 5 A::f();",
      "void A::f() const;",
      "int g() { }",
      "class Foo : public Bar { int x; };",
      "int x = f(1);",
      "struct S { S() : x(1) { } int x; };" }
DeclSources ==
    { Chars(pre \o Join(" ", fs)) :
        pre \in { "", "namespace A { " }, fs \in SeqsUpTo(DeclFrags, MaxDecls) }

\* Sources that stop short: every text of the declarations above, and of a
\* few more, cut after any of its characters.
UnfinishedBases ==
    DeclFrags \cup
    { "explicit Foo(int);", "class Foo { explicit Foo(int x); };", "class 5;" }
UnfinishedSources ==
    UNION { { Chars(SubSeq(d, 1, k)) : k \in 1..Len(d) } : d \in UnfinishedBases }

\* A struct S whose body holds some of these members, each at most once, in
\* any order.
Members == { "int x;", "int y = 2;", "S() : x(1) { }", "~S();", "S(int);" }
Arrangements(S) ==
    { ms \in SeqsUpTo(S, Cardinality(S)) :
        \A j, k \in 1..Len(ms) : j # k => ms[j] # ms[k] }
MemberSources ==
    { Chars("struct S { " \o Join(" ", ms) \o " };") : ms \in Arrangements(Members) }

\* Function declarators: [template <...>] ReturnType [Q::]name tail.  A
\* return type comes with the fields its Type is to have; 'inline void' is
\* read as a return type after a template<...> only (elsewhere handle_inline
\* takes the 'inline' before the declaration is read).
TemplatePrefixes ==
    { [text |-> "", params |-> {}, none |-> TRUE],
      [text |-> "template <class T> ", params |-> { "T" }, none |-> FALSE],
      [text |-> "template <class T, typename U> ", params |-> { "T", "U" }, none |-> FALSE] }
ReturnTypes ==
    { [text |-> "void", name |-> "void", modifiers |-> << >>, reference |-> FALSE,
       pointer |-> FALSE],
      [text |-> "DT*", name |-> "DT", modifiers |-> << >>, reference |-> FALSE,
       pointer |-> TRUE],
      [text |-> "A::B", name |-> "A::B", modifiers |-> << >>, reference |-> FALSE,
       pointer |-> FALSE],
      [text |-> "const A::B&", name |-> "A::B", modifiers |-> << "const" >>,
       reference |-> TRUE, pointer |-> FALSE],
      [text |-> "inline void", name |-> "inline void", modifiers |-> << >>,
       reference |-> FALSE, pointer |-> FALSE] }
UNQUALIFIED == ""
Qualifiers == { UNQUALIFIED, "A", "A::B", "EVM::VH<T>", "Worker<CT, IT, DT>", "A<B>::C<D>" }
DeclaratorTails == { "();", "() { }", "() const;" }
Declarator(p, r, q, t) ==
    p.text \o r.text \o " " \o (IF q = UNQUALIFIED THEN "" ELSE q \o "::") \o "Write" \o t
Declarators ==
    { <<p, r, q, t>> \in TemplatePrefixes \X ReturnTypes \X Qualifiers \X DeclaratorTails :
        r.text = "inline void" => ~p.none }
DeclaratorText(d) == Chars(Declarator(d[1], d[2], d[3], d[4]))
INLINE_METHOD == Chars("inline void EVM::VH<T>::Write() { }")
DeclaratorSources == { DeclaratorText(d) : d \in Declarators } \cup { INLINE_METHOD }

\* The declarations and definitions the claims name.
NamedSources ==
    { Chars(t) : t \in { "struct Foo;", "union Foo;", "class Foo {};", "struct Foo {};",
                         "class Foo : public Bar {};",
                         "enum X;", "enum class X;", "enum X : int;", "enum X { A, B };",
                         "struct S { S() : x{1}, y(1, 2) { } int x; int y = 3; };",
                         "static int g() { }", "namespace { int g() { } }",
                         "namespace A { namespace { static int g(); } }",
                         "namespace { class Foo {}; }", "namespace { enum X { A, B }; }",
                         "namespace A { namespace { struct Foo { int x; }; } }" } }

\* Classes whose bodies hold blocks, namespaces, classes and a lambda (which
\* leaves a surplus '}' behind), each followed by another declaration.
ClassBodySources ==
    { Chars(t) : t \in
        { "class Foo { auto f = [] { return 1; }; int x; }; class Bar;",
          "namespace A { struct S { auto f = [] { return 1; }; }; class Bar; }",
          "namespace A { class Foo { namespace N { int x; } }; class Bar; }",
          "class Foo { { } int x; } y; class Bar;",
          "class Foo { class In { int x; }; }; class Bar;",
          "namespace A { class Foo; } struct S { S() : x(1) { } int x; };" } }

\* Simple declarations of a variable: 'T name;' and 'T name = v;'.
SimpleDeclarations ==
    { Chars(t) : t \in { "int x;", "int x = 3;", "Foo y;", "Foo  y=z ;", "int x = f(1);" } }

\* Declarations with an '=' before the first '(' or '{'.
AssignmentSources ==
    { Chars(t) : t \in { "int x = f(1);", "auto f = [] { return 1; };", "int x = f({1; 2});",
                         "Foo y = { 1, 2 };", "int x = (1); int y;", "int z = a[f(1)];" } }

\* A function declaration with up to MaxSpecifiers trailing specifiers after
\* its parameter list, in any order and with repetition.
MaxSpecifiers == 2
Specifiers ==
    { "const", "override", "noexcept(true)", "throw()", "__attribute__((x))", "MACRO",
      "&", "&&", "-> int" }
SpecifierText(ss) == Chars("auto f() " \o Join(" ", ss) \o ";")
SpecifierSources == { SpecifierText(ss) : ss \in SeqsUpTo(Specifiers, MaxSpecifiers) }

BuilderSources ==
    BlockSources \cup DeclSources \cup UnfinishedSources \cup NamedSources
        \cup MemberSources \cup DeclaratorSources \cup ClassBodySources
        \cup SimpleDeclarations \cup AssignmentSources
        \cup SpecifierSources
        \cup { NAMESPACE_ONE_CLOSED, NAMESPACE_ANONYMOUS_INSIDE }

\* ---- type expressions: Name, Name<Name>, and Bar<argument, ...> with up to
\* MaxArgs such arguments, as trees [name, args].
MaxArgs == 3
Leaf(n) == [name |-> n, args |-> << >>]
TypeNames == { "Foo", "X" }
Arguments ==
    { Leaf(n) : n \in TypeNames }
        \cup { [name |-> n, args |-> << Leaf(m) >>] : n, m \in TypeNames }
TEMPLATE_NESTED ==
    [name |-> "Bar",
     args |-> << [name |-> "Foo", args |-> << Leaf("X") >>], Leaf("Blah"),
                 [name |-> "Bling", args |-> << Leaf("Y") >>] >>]
TypeTrees ==
    Arguments \cup { [name |-> "Bar", args |-> as] : as \in SeqsUpTo(Arguments, MaxArgs) \ { << >> } }
        \cup { TEMPLATE_NESTED }
RECURSIVE Render(_, _)
\* The text of a tree; close is how a closing bracket is written, ">" or
\* " >" (so that no two of them touch).
Render(tree, close) ==
    IF tree.args = << >> THEN tree.name
    ELSE tree.name \o "<"
            \o Join(", ", [k \in 1..Len(tree.args) |-> Render(tree.args[k], close)])
            \o close
CLOSERS == { ">", " >" }
TypeSources == { Chars(Render(t, c)) : t \in TypeTrees, c \in CLOSERS }

\* ---- macros: up to MaxDirectives #define and #undef lines, then a text
\* that uses the names FOO and BAR with a parenthesis group inside a
\* declaration.
MaxDirectives == 2
Directives ==
    { "#define FOO(x) x", "# define FOO( x ) x", "#define FOO 1", "#undef FOO",
      "#define BAR(a, b)" }
MacroUses ==
    { "int FOO(1) y;", "int BAR(1, 2) y;", "namespace N { int FOO(1) y; }",
      "class C { int FOO(1) y; };" }
MacroText(ds, use) == Chars(Join("", [k \in 1..Len(ds) |-> ds[k] \o "\n"]) \o use)
MacroSources ==
    { MacroText(ds, use) : ds \in SeqsUpTo(Directives, MaxDirectives), use \in MacroUses }

\* ---- token streams for a caller that reads and pushes back
QueueSources == { Chars(t) : t \in { "", "a", "a b", "int x;", "a b c d", "f(1);" } }

\* ---- parameter lists: up to MaxParams entries separated by commas.
MaxParams == 3
ParameterEntries ==
    { "int bar", "int[] bar", "Bar[] bar", "const int[] bar", "mutable char* foo",
      "volatile Bar& babar", "vector<int, A> x", "int b = 3" }
ARRAY_POINTER_REFERENCE == "const int[] bar, mutable char* foo, volatile Bar& babar"
ParameterSources ==
    { Chars(Join(", ", ps)) : ps \in SeqsUpTo(ParameterEntries, MaxParams) }

\* ============================================================ WarningHunter
SetMax(S) == CHOOSE x \in S : \A y \in S : y <= x

\* Module._get_exported_symbols: a dict, so the last exportable node of a
\* name is the one kept.  ast_list is Nothing (None) or Some(nodes).
_get_exported_symbols(ast_list) ==
    IF ast_list = Nothing \/ ast_list = Some(<< >>) THEN << >>
    ELSE LET nodes == ast_list[1]
             exported == { k \in 1..Len(nodes) : is_exportable(nodes[k]) }
         IN  [name \in { nodes[k].name : k \in exported } |->
                 nodes[SetMax({ k \in exported : nodes[k].name = name })]]

\* Module.__init__
Module(filename, ast_list) ==
    [filename |-> filename, ast_list |-> ast_list,
     public_symbols |-> _get_exported_symbols(ast_list)]

\* Metrics.get_line_number
get_line_number(text, index) ==
    1 + Cardinality({ k \in 1..index : k <= Len(text) /\ text[k] = "\n" })

\* The files of the directory of the main file, with their texts.
MAIN == "main.cc"
FOO_H == "class Foo {}; int g() { }"
BAR_H == "struct Bar { int x; };"
TOKEN_H == "class Tok {}; @"
PARSE_H == "class Par {}; class 5;"
CUT_H == "class Cut {}; int g("
QUOTE_H == "class Q {}; \""
FileSystem ==
    [name \in { "foo.h", "bar.h", "token.h", "parse.h", "cut.h", "quote.h" } |->
        CASE name = "foo.h" -> FOO_H
          [] name = "bar.h" -> BAR_H
          [] name = "token.h" -> TOKEN_H
          [] name = "parse.h" -> PARSE_H
          [] name = "cut.h" -> CUT_H
          [] name = "quote.h" -> QUOTE_H]
MISSING_H == "missing.h"
HeaderNames == DOMAIN FileSystem \cup { MISSING_H }

\* headers.read_source(filename, include_paths): the text of the file and the
\* name it was found under, or no text and the name as given.
read_source(filename) ==
    IF filename \in DOMAIN FileSystem
    THEN [source |-> Some(Chars(FileSystem[filename])), filename |-> filename]
    ELSE [source |-> Nothing, filename |-> filename]

\* SymbolTable.add_symbol, for every public symbol of the module
\* (WarningHunter._update_symbol_table).
_update_symbol_table(table, module) ==
    table \cup { [symbol_name |-> name,
                  namespace_stack |-> module.public_symbols[name].namespace,
                  node |-> module.public_symbols[name],
                  module |-> module.filename] : name \in DOMAIN module.public_symbols }

\* WarningHunter._add_warning for a node of the main file, whose text is text.
_add_warning(set, text, msg, node) ==
    set \cup { << MAIN, get_line_number(text, node.start), msg >> }

\* The exceptions of get_tokens that are tokenize.TokenError.
TOKEN_ERRORS == { "TokenError_unexpected", "TokenError_expected" }

\* WarningHunter._get_module(node) of a hunter whose cache is cache, whose
\* symbol table is table and whose source is text: the module returned, or
\* the exception that leaves it (exc), and the cache, table and warnings
\* after it.  Every node is true in "if _f", so the list keeps them all.
_get_module(cache, table, set, text, node) ==
    LET r == read_source(node.filename)
    IN  IF r.source = Nothing
        THEN [exc |-> OK, module |-> Some(Module(r.filename, Nothing)),
              cache |-> cache, table |-> table,
              set |-> _add_warning(set, text, "unable to find '" \o r.filename \o "'", node)]
        ELSE IF r.filename \in DOMAIN cache
        THEN [exc |-> OK, module |-> Some(cache[r.filename]), cache |-> cache,
              table |-> _update_symbol_table(table, cache[r.filename]), set |-> set]
        ELSE LET g == Call("generate_loop", << builder_from_source(r.source[1]), << >> >>)
                 ast_list == IF g.exc = OK THEN Some(g.nodes) ELSE Nothing
                 module == Module(r.filename, ast_list)
             IN  IF g.exc \in { OK, "ParseError" } \cup TOKEN_ERRORS
                 THEN [exc |-> OK, module |-> Some(module),
                       cache |-> (r.filename :> module) @@ cache,
                       table |-> _update_symbol_table(table, module), set |-> set]
                 ELSE [exc |-> g.exc, module |-> Nothing, cache |-> cache,
                       table |-> table, set |-> set]

\* The main file that includes the files names, one #include on each line,
\* and the Include nodes the builder yields for it.
MaxIncludes == 3
RECURSIVE MainText(_)
MainText(names) ==
    IF names = << >> THEN ""
    ELSE "#include \"" \o Head(names) \o "\"\n" \o MainText(Tail(names))
IncludeNodes(names) ==
    LET tokens == list_get_tokens(Chars(MainText(names)))
    IN  [k \in 1..Len(names) |-> Include(tokens[k].start, tokens[k].end, names[k], FALSE)]
IncludeLists == UNION { [1..n -> HeaderNames] : n \in 1..MaxIncludes }

\* ---------------------------------------------------------- state machine
VARIABLES
    input,      \* the string passed to get_tokens or to builder_from_source
    source,     \* get_tokens' local source (normalized, then blanked in places)
    i,          \* get_tokens' scan index
    count_ifs,  \* get_tokens' #if 0 depth counter
    out,        \* the tokens yielded so far
    st,         \* "run", "done", or how get_tokens failed
    builder,    \* the ASTBuilder made by builder_from_source(input)
    yielded,    \* the nodes generate() has yielded so far
    bst,        \* "run", "done", or how generate() failed
    held,       \* the tokens a caller of the builder has read and not pushed back
    types,      \* what TypeConverter.to_type returned, None before the call
    includes,   \* the #include nodes the WarningHunter has still to look up
    module_cache,   \* WarningHunter._module_cache: filename -> Module
    symbol_table,   \* the symbols added to WarningHunter.symbol_table
    warnings,   \* WarningHunter.warnings
    modules,    \* the modules _get_module has returned so far
    hst         \* "run", "done", or the exception that left _get_module

vars == <<input, source, i, count_ifs, out, st, builder, yielded, bst, held, types, includes, module_cache, symbol_table, warnings, modules, hst>>
tokenizer_vars == <<source, i, count_ifs, out, st>>
builder_vars == <<builder, yielded, bst, held>>
hunter_vars == <<includes, module_cache, symbol_table, warnings, modules, hst>>

\* There is no tokenizer run, no builder, no converter call, no WarningHunter.
NoTokenizer == source = << >> /\ i = 0 /\ count_ifs = 0 /\ out = << >> /\ st = "idle"
NoBuilder == builder = None /\ yielded = << >> /\ bst = "idle" /\ held = << >>
NoConverter == types = None
NoHunter ==
    /\ includes = << >>
    /\ module_cache = << >>
    /\ symbol_table = {}
    /\ warnings = {}
    /\ modules = << >>
    /\ hst = "idle"

\* ---- get_tokens pulled to its end; there is no builder.
Init ==
    /\ input \in Sources
    /\ source = Normalize(input)
    /\ i = 0
    /\ count_ifs = 0
    /\ out = << >>
    /\ st = "run"
    /\ NoBuilder
    /\ NoConverter
    /\ NoHunter

\* One iteration of the main loop of get_tokens (or its exit).
Iterate ==
    /\ st = "run"
    /\ Len(out) < MaxTokens
    /\ count_ifs < MaxIfs
    /\ LET o == Iteration(source, i, count_ifs)
       IN  /\ source' = o.source
           /\ i' = o.i
           /\ count_ifs' = o.count_ifs
           /\ out' = out \o o.toks
           /\ st' = o.st
    /\ UNCHANGED <<input, builder_vars, types, hunter_vars>>

Next == Iterate

Spec == Init /\ [][Next]_vars

\* ---- builder_from_source(input).generate() pulled to its end; the builder
\* pulls the tokens from its own get_tokens generator (builder.tokens).
InitAST ==
    /\ input \in BuilderSources
    /\ source = Normalize(input)
    /\ i = 0
    /\ count_ifs = 0
    /\ out = << >>
    /\ st = "idle"
    /\ builder = builder_from_source(input)
    /\ yielded = << >>
    /\ bst = "run"
    /\ held = << >>
    /\ NoConverter
    /\ NoHunter

\* One iteration of the loop of generate() (or its exit).
Generate ==
    /\ bst = "run"
    /\ \E s \in { Call("generate_iteration", << builder >>) } :
           /\ builder' = s.b
           /\ yielded' = yielded \o s.nodes
           /\ bst' = IF s.exc # OK THEN s.exc ELSE IF s.over THEN "done" ELSE "run"
    /\ UNCHANGED <<input, tokenizer_vars, held, types, hunter_vars>>

NextAST == Generate

SpecAST == InitAST /\ [][NextAST]_vars

\* ---- builder_from_source(input).generate() on a source that defines
\* macros and uses them.
InitMacro ==
    /\ input \in MacroSources
    /\ NoTokenizer
    /\ builder = builder_from_source(input)
    /\ yielded = << >>
    /\ bst = "run"
    /\ held = << >>
    /\ NoConverter
    /\ NoHunter

SpecMacro == InitMacro /\ [][NextAST]_vars

\* ---- a caller of builder_from_source(input) that reads tokens and pushes
\* tokens it has read back, in any order, as the handlers of the builder do.
InitQueue ==
    /\ input \in QueueSources
    /\ NoTokenizer
    /\ builder = builder_from_source(input)
    /\ yielded = << >>
    /\ bst = "run"
    /\ held = << >>
    /\ NoConverter
    /\ NoHunter

\* token = self._get_next_token(); bst is how the call ended.
GetNextToken ==
    /\ \E r \in { _get_next_token(builder) } :
           /\ builder' = r.b
           /\ bst' = IF r.exc # OK THEN r.exc ELSE "run"
           /\ held' = IF r.exc # OK THEN held ELSE Append(held, r.token)
    /\ UNCHANGED <<input, tokenizer_vars, yielded, types, hunter_vars>>

\* self._add_back_token(token), of a token the caller holds.
AddBackToken ==
    /\ \E k \in 1..Len(held) :
           /\ builder' = _add_back_token(builder, held[k])
           /\ held' = SubSeq(held, 1, k - 1) \o SubSeq(held, k + 1, Len(held))
    /\ UNCHANGED <<input, tokenizer_vars, yielded, bst, types, hunter_vars>>

\* self._add_back_tokens(tokens), of a run of the tokens the caller holds
\* (the empty list too).
AddBackTokens ==
    /\ \E j \in 1..(Len(held) + 1), k \in 0..Len(held) :
           /\ j <= k + 1
           /\ builder' = _add_back_tokens(builder, SubSeq(held, j, k))
           /\ held' = SubSeq(held, 1, j - 1) \o SubSeq(held, k + 1, Len(held))
    /\ UNCHANGED <<input, tokenizer_vars, yielded, bst, types, hunter_vars>>

NextQueue == GetNextToken \/ AddBackToken \/ AddBackTokens

SpecQueue == InitQueue /\ [][NextQueue]_vars

\* ---- TypeConverter([]).to_type(list(get_tokens(input)))
InitType ==
    /\ input \in TypeSources
    /\ NoTokenizer
    /\ NoBuilder
    /\ types = None
    /\ NoHunter

\* The call of to_type.
Convert ==
    /\ types = None
    /\ types' = Call("to_type", << list_get_tokens(input) >>)
    /\ UNCHANGED <<input, tokenizer_vars, builder_vars, hunter_vars>>

NextType == Convert

SpecType == InitType /\ [][NextType]_vars

\* ---- TypeConverter([]).to_parameters(list(get_tokens(input)))
InitParameters ==
    /\ input \in ParameterSources
    /\ NoTokenizer
    /\ NoBuilder
    /\ types = None
    /\ NoHunter

\* The call of to_parameters.
ConvertParameters ==
    /\ types = None
    /\ types' = Call("to_parameters", << list_get_tokens(input) >>)
    /\ UNCHANGED <<input, tokenizer_vars, builder_vars, hunter_vars>>

NextParameters == ConvertParameters

SpecParameters == InitParameters /\ [][NextParameters]_vars

\* ---- WarningHunter(MAIN, ...) looking up the files its source includes
InitHunter ==
    /\ input \in IncludeLists
    /\ NoTokenizer
    /\ NoBuilder
    /\ NoConverter
    /\ includes = IncludeNodes(input)
    /\ module_cache = (MAIN :> Module(MAIN, Some(IncludeNodes(input))))
    /\ symbol_table = {}
    /\ warnings = {}
    /\ modules = << >>
    /\ hst = "run"

\* self._get_module(node) for the next #include of the main file.
GetModule ==
    /\ hst = "run"
    /\ includes # << >>
    /\ \E r \in { _get_module(module_cache, symbol_table, warnings,
                              Chars(MainText(input)), Head(includes)) } :
           /\ module_cache' = r.cache
           /\ symbol_table' = r.table
           /\ warnings' = r.set
           /\ modules' = modules \o r.module
           /\ includes' = IF r.exc # OK THEN includes ELSE Tail(includes)
           /\ hst' = IF r.exc # OK THEN r.exc
                     ELSE IF Tail(includes) = << >> THEN "done" ELSE "run"
    /\ UNCHANGED <<input, tokenizer_vars, builder_vars, types>>

NextHunter == GetModule

SpecHunter == InitHunter /\ [][NextHunter]_vars

\* ============================================================== claims
\* The source get_tokens works on before it blanks anything.
Original == Normalize(input)
FIVE_SHIFT_THREE == <<"5"," ",">",">"," ","3">>

\* ---- C1
\* The iteration about to run starts, after the whitespace, at index k.
NextStart == SkipSpace(source, i)
\* C1: get_tokens ends after finitely many steps: no loop inside an iteration
\* runs forever, and from one iteration of the main loop to the next the scan
\* index strictly increases (an #endif that ends a suppressed region is
\* blanked in place and scanned again, which is progress too).
C1_ScanIndexIncreases ==
    [][ /\ st' # "hang"
        /\ st' = "run" =>
             \/ i' > i
             \/ i' = i /\ count_ifs > 0 /\ count_ifs' = 0 /\ source' # source ]_vars

\* ---- C10
\* The iteration about to run starts at a quote that has no closing quote
\* anywhere later in the source.
AtUnclosedQuote ==
    /\ st = "run"
    /\ NextStart < Len(source)
    /\ At(source, NextStart) \in {"\"", "'"}
    /\ Find(source, << At(source, NextStart) >>, NextStart + 1) = -1
\* C10: an opening quote without a closing quote raises nothing and is a
\* one-character token (end == start + 1); the scan goes on right after it,
\* and the token is yielded unless an #if 0 region suppresses it.
C10_UnclosedQuoteIsOneChar ==
    [][ AtUnclosedQuote =>
          /\ st' = "run"
          /\ i' = NextStart + 1
          /\ out' = IF count_ifs # 0 THEN out
                    ELSE Append(out, Token(CONSTANT_TOKEN, << At(source, NextStart) >>,
                                           NextStart, NextStart + 1)) ]_vars

\* ---- C7
\* C7: every yielded token has 0 <= start < end <= len(source) + 1 and its
\* text is source[start:end] of the newline-normalized input.
C7_SpanCoverage ==
    \A k \in 1..Len(out) :
        /\ 0 <= out[k].start
        /\ out[k].start < out[k].end
        /\ out[k].end <= Len(Original) + 1
        /\ out[k].name = Slice(Original, out[k].start, out[k].end)

\* ---- C8
\* The longest of '<<=', '<<', '<=', '<' (or of '>=', '>') that the source
\* holds at index p.
AngleToken(s, p) ==
    LET c == At(s, p)
    IN  IF c = "<" /\ At(s, p + 1) = "<" /\ At(s, p + 2) = "=" THEN <<"<","<","=">>
        ELSE IF c = "<" /\ At(s, p + 1) = "<" THEN <<"<","<">>
        ELSE IF At(s, p + 1) = "=" THEN <<c, "=">>
        ELSE <<c>>
RegionStart(s) ==
    LET at == { p \in 0..Len(s) :
                  /\ p = 0 \/ At(s, p - 1) = "\n"
                  /\ Slice(s, p, p + Len(IF0_LINE)) = IF0_LINE }
    IN  IF at = {} THEN -1 ELSE SetMin(at)
RECURSIVE MatchingEndif(_, _, _)
\* The index after the #endif that matches an #if, read off the text line by
\* line: p is the start of the line just read and depth the number of #if
\* lines open after it; a line that starts with #if opens one, a line that
\* starts with #endif closes one.  len(s) when no #endif matches.
MatchingEndif(s, p, depth) ==
    LET n == Find(s, <<"\n">>, p) + 1
    IN  IF n >= Len(s) THEN Len(s)
        ELSE IF Slice(s, n, n + 6) = <<"#","e","n","d","i","f">>
        THEN IF depth = 1 THEN n + 6 ELSE MatchingEndif(s, n, depth - 1)
        ELSE IF Slice(s, n, n + 3) = <<"#","i","f">>
        THEN MatchingEndif(s, n, depth + 1)
        ELSE MatchingEndif(s, n, depth)
RegionEnd(s) == MatchingEndif(s, RegionStart(s), 1)
RECURSIVE FirstToken(_, _, _)
\* The first token get_tokens yields for the text s read from index k, as a
\* sequence of one token, or empty when it yields none.
FirstToken(s, k, fuel) ==
    LET o == Iteration(s, k, 0)
    IN  IF o.toks # << >> THEN o.toks
        ELSE IF o.st # "run" \/ o.count_ifs # 0 \/ fuel = 0 THEN << >>
        ELSE FirstToken(o.source, o.i, fuel - 1)
\* A token of the text after index m, as a token of the whole text.
Shifted(t, m) == [t EXCEPT !.start = t.start + m, !.end = t.end + m]
\* C6: from a #if 0 line up to its matching #endif no token is yielded and
\* no character is rejected as unexpected, the depth counter never goes
\* below zero, and the first token yielded afterwards is the first token of
\* the text that follows the matching #endif.
C6_SuppressedRegion ==
    LET s == Original
        a == RegionStart(s)
        m == RegionEnd(s)
        after == { k \in 1..Len(out) : out[k].start >= a }
        first == FirstToken(Slice(s, m, Len(s)), 0, Len(s))
    IN  /\ count_ifs >= 0
        /\ a # -1 =>
             /\ \A k \in 1..Len(out) : ~(a <= out[k].start /\ out[k].start < m)
             /\ (st = "TokenError_unexpected") => ~(a <= i /\ i < m)
             /\ (after # {}) =>
                  /\ first # << >>
                  /\ out[SetMin(after)] = Shifted(first[1], m)

\* ---- C11
\* The characters the chain of tests of the main loop recognises at the
\* start of a token.
RECOGNISED ==
    VALID_IDENTIFIER_FIRST_CHARS \cup Digits \cup
    {"/", "<", ">", ":", "+", "-", "&", "|", "=", "!", "*", "^", "%",
     "(", ")", "[", "]", "{", "}", "~", "?", ";", ".", ",", "\"", "'", "#", "\\"}
\* C11: get_tokens fails in one case only: the character at a token start
\* belongs to no recognised class while no #if 0 region is open; the failure
\* is the TokenError "unexpected token", and the tokens before that
\* character have all been yielded by then.
C11_OnlyUnexpectedCharacterFails ==
    [][ st' \notin {"run", "done"} =>
          /\ st' = "TokenError_unexpected"
          /\ count_ifs = 0
          /\ NextStart < Len(source)
          /\ At(source, NextStart) \notin RECOGNISED
          /\ out' = out ]_vars

\* ---- C27
\* A decimal literal: a CONSTANT token that starts with a digit and is not
\* a hexadecimal literal.
IsDecimalLiteral(tok) ==
    /\ tok.token_type = CONSTANT_TOKEN
    /\ IsDigit(tok.name[1])
    /\ ~(Len(tok.name) > 1 /\ tok.name[1] = "0" /\ tok.name[2] \in {"x", "X"})
\* C27: a '+' or '-' is part of a decimal literal only right after an
\* exponent marker 'e' or 'E'; otherwise it ends the literal and is a token
\* of its own, so '5-3' gives the three tokens '5', '-', '3'.
C27_SignOnlyAfterExponent ==
    /\ \A k \in 1..Len(out) :
          IsDecimalLiteral(out[k]) =>
              \A j \in 1..Len(out[k].name) :
                  out[k].name[j] \in {"+", "-"} =>
                      j > 1 /\ out[k].name[j - 1] \in {"e", "E"}
    /\ (input = FIVE_MINUS_THREE /\ st = "done") =>
          out = << Token(CONSTANT_TOKEN, <<"5">>, 0, 1), Token(SYNTAX, <<"-">>, 1, 2),
                   Token(CONSTANT_TOKEN, <<"3">>, 2, 3) >>

\* ------------------------------------------------ claims on the builder
RECURSIVE Pending(_)
\* The tokens the builder b has still to read: its queue, then its stream.
Pending(b) ==
    LET t == _get_next_token(b)
    IN  IF t.exc # OK THEN << >> ELSE << t.token >> \o Pending(t.b)
\* The tokens of the text the builder was made from.
AllTokens == Pending(builder_from_source(input))
\* The tokens one iteration of the loop of generate() took from the stream.
Consumed ==
    SubSeq(Pending(builder), 1, Len(Pending(builder)) - Len(Pending(builder')))
\* How many of the tokens are the syntax token c.
Occurrences(tokens, c) ==
    Cardinality({ k \in 1..Len(tokens) :
                    tokens[k].token_type = SYNTAX /\ tokens[k].name = c })
BRACKETS == { <<"(", ")">>, <<"{", "}">>, <<"[", "]">> }

\* ---- C2
\* C2: generate() ends after finitely many steps: no loop of the builder
\* iterates without consuming a token or advancing its index (the builder
\* never hangs), and every iteration of the loop of generate() that does not
\* end it leaves fewer tokens to read than there were before it.
C2_GenerateEnds ==
    [][/\ bst' # "hang"
       /\ bst' = "run" => Len(Pending(builder')) < Len(Pending(builder))]_vars

\* ---- C3
\* C3: when an iteration of generate() yields a node, the tokens it took
\* from the stream hold as many '(' as ')', '{' as '}' and '[' as ']'.
C3_ConstructIsBalanced ==
    [][yielded' # yielded =>
         \A p \in BRACKETS :
             Occurrences(Consumed, p[1]) = Occurrences(Consumed, p[2])]_vars

\* ---- C4
\* The nestings of namespace blocks, bare brace blocks and forward
\* declarations among the modelled sources.
NestingSources == BlockSources \cup { NAMESPACE_ONE_CLOSED, NAMESPACE_ANONYMOUS_INSIDE }
\* A bare brace block on the stack of open blocks.
BARE == "{"
RECURSIVE OpenBlocks(_, _, _, _)
\* The blocks open before token number n, read off the tokens from number k
\* on: the name of a namespace block, None for an anonymous one, BARE for a
\* bare brace block; a '}' closes the innermost open block.
OpenBlocks(tokens, k, n, stack) ==
    IF k >= n THEN stack
    ELSE IF tokens[k].name = "namespace"
    THEN IF k < Len(tokens) /\ tokens[k + 1].token_type = NAME
         THEN OpenBlocks(tokens, k + 3, n, Append(stack, tokens[k + 1].name))
         ELSE OpenBlocks(tokens, k + 2, n, Append(stack, None))
    ELSE IF tokens[k].name = "{" THEN OpenBlocks(tokens, k + 1, n, Append(stack, BARE))
    ELSE IF tokens[k].name = "}"
    THEN OpenBlocks(tokens, k + 1, n, IF stack = << >> THEN stack ELSE Front(stack))
    ELSE OpenBlocks(tokens, k + 1, n, stack)
\* The namespace blocks among the open blocks, outermost first.
IsNamespace(block) == block # BARE
OpenNamespaces(tokens, n) == SelectSeq(OpenBlocks(tokens, 1, n, << >>), IsNamespace)
\* Every '}' closes a block that is open, and no block is left open.
Balanced(tokens) ==
    /\ \A n \in 1..Len(tokens) :
           Occurrences(SubSeq(tokens, 1, n), "}") <= Occurrences(SubSeq(tokens, 1, n), "{")
    /\ Occurrences(tokens, "}") = Occurrences(tokens, "{")
\* The numbers of the tokens that start where the node starts.
TokensAt(tokens, node) == { n \in 1..Len(tokens) : tokens[n].start = node.start }
\* C4: in a balanced nesting of namespace blocks and bare brace blocks, the
\* namespace path of every yielded node is the names of the namespace
\* blocks open where its declaration starts, outermost first; a block closed
\* before it and a bare brace block do not appear.
C4_NamespacePath ==
    LET tokens == AllTokens
    IN  (input \in NestingSources /\ Balanced(tokens)) =>
            \A k \in 1..Len(yielded) :
                /\ TokensAt(tokens, yielded[k]) # {}
                /\ \A n \in TokensAt(tokens, yielded[k]) :
                       yielded[k].namespace = OpenNamespaces(tokens, n)
C4_Witness ==
    /\ input = NAMESPACE_ONE_CLOSED
    /\ bst = "done"
    /\ Len(yielded) = 1
    /\ yielded[1].name = "Foo"
    /\ yielded[1].namespace = << "A", "C" >>

\* ---- C5
\* An anonymous namespace is open where the node starts.
InAnonymous(tokens, node) ==
    \E n \in TokensAt(tokens, node) :
        \E p \in 1..Len(OpenNamespaces(tokens, n)) : OpenNamespaces(tokens, n)[p] = None
\* No namespace is open where the node starts.
OutsideNamespaces(tokens, node) ==
    \E n \in TokensAt(tokens, node) : OpenNamespaces(tokens, n) = << >>
\* C5: the path of a node declared inside an anonymous namespace holds None
\* at the position of that namespace and nowhere else, the path of a node
\* declared outside any namespace is empty, and the two paths differ.
C5_AnonymousMarker ==
    LET tokens == AllTokens
    IN  input \in NestingSources =>
            /\ \A k \in 1..Len(yielded) : \A n \in TokensAt(tokens, yielded[k]) :
                   LET open == OpenNamespaces(tokens, n)
                       path == yielded[k].namespace
                   IN  /\ Len(path) = Len(open)
                       /\ \A p \in 1..Len(open) : (path[p] = None) <=> (open[p] = None)
            /\ \A k \in 1..Len(yielded) :
                   OutsideNamespaces(tokens, yielded[k]) => yielded[k].namespace = << >>
            /\ \A k1, k2 \in 1..Len(yielded) :
                   (InAnonymous(tokens, yielded[k1]) /\ OutsideNamespaces(tokens, yielded[k2]))
                       => yielded[k1].namespace # yielded[k2].namespace
C5_Witness ==
    /\ input = Chars("namespace { class Foo; } class Foo;")
    /\ Len(yielded) = 2
    /\ yielded[1].namespace = << None >>
    /\ yielded[2].namespace = << >>
    /\ InAnonymous(AllTokens, yielded[1])
    /\ OutsideNamespaces(AllTokens, yielded[2])

\* ---- C12
\* The text ends inside a '(' or a '{' that is never closed.
EndsInsideBracket ==
    \/ Occurrences(AllTokens, "(") > Occurrences(AllTokens, ")")
    \/ Occurrences(AllTokens, "{") > Occurrences(AllTokens, "}")
\* C12: generate() fails with ParseError and with nothing else, and it does
\* not end normally when the token stream ended inside an unclosed bracket.
C12_FailsWithParseErrorOnly ==
    [][ /\ bst' \notin {"run", "done"} => bst' = "ParseError"
        /\ bst' = "done" => ~EndsInsideBracket ]_vars

\* ---- C14
\* generate() has yielded one node, of class kind and named name.
YieldedOne(kind, name) ==
    /\ Len(yielded) = 1
    /\ yielded[1].kind = kind
    /\ yielded[1].name = name
ForwardDeclared(n) ==
    /\ n.bases = Nothing
    /\ n.body = Nothing
    /\ is_declaration(n)
    /\ ~is_definition(n)
\* C14: 'class Foo;' yields exactly one Class named Foo with bases None and
\* body None that is a declaration and no definition, 'struct Foo;' one such
\* Struct, and 'class Foo {};' one Class that is a definition and no
\* declaration; none of the three fails.
C14_ForwardDeclarationAndDefinition ==
    /\ input \in { Chars("class Foo;"), Chars("struct Foo;"), Chars("class Foo {};") }
         => bst \in { "run", "done" }
    /\ input = Chars("class Foo;") /\ bst = "done"
         => YieldedOne("Class", "Foo") /\ ForwardDeclared(yielded[1])
    /\ input = Chars("struct Foo;") /\ bst = "done"
         => YieldedOne("Struct", "Foo") /\ ForwardDeclared(yielded[1])
    /\ input = Chars("class Foo {};") /\ bst = "done"
         => /\ YieldedOne("Class", "Foo")
            /\ is_definition(yielded[1])
            /\ ~is_declaration(yielded[1])
C14_Witness ==
    /\ input = Chars("class Foo {};")
    /\ bst = "done"
    /\ Len(yielded) = 1
    /\ is_definition(yielded[1])

\* ---- C15
RECURSIVE Descendants(_)
\* The nodes of a list of nodes with the nodes inside them: the members of a
\* class body and the class a variable is declared with.
Descendants(nodes) ==
    UNION { {nodes[k]}
              \cup (IF nodes[k].kind \in CLASS_KINDS /\ nodes[k].body # Nothing
                    THEN Descendants(nodes[k].body[1]) ELSE {})
              \cup (IF nodes[k].kind = "VariableDeclaration"
                       /\ nodes[k].type.name_node # Nothing
                    THEN Descendants(nodes[k].type.name_node) ELSE {})
            : k \in 1..Len(nodes) }
\* The Class, Struct and Union nodes the builder has produced so far.
ClassNodes == { n \in Descendants(yielded) : n.kind \in CLASS_KINDS }
ENUM_FORWARD == { Chars("enum X;"), Chars("enum class X;"), Chars("enum X : int;") }
\* C16: a forward-declared enum yields one Enum node named X with fields
\* None that is a declaration and no definition.
C16_EnumForwardDeclaration ==
    input \in ENUM_FORWARD /\ bst = "done" =>
        /\ YieldedOne("Enum", "X")
        /\ yielded[1].fields = Nothing
        /\ is_declaration(yielded[1])
        /\ ~is_definition(yielded[1])

\* ---- C17
\* The members of the body of class node c that are constructors: functions
\* named as the class.
Constructors(c) ==
    { k \in 1..Len(c.body[1]) :
        c.body[1][k].kind \in FUNCTION_KINDS /\ c.body[1][k].name = c.name }
\* The entries m(v) and m{v} of the initializer lists of the constructors of c.
Entries(c) ==
    UNION { { c.body[1][k].initializers[j] : j \in 1..Len(c.body[1][k].initializers) }
            : k \in Constructors(c) }
SingleEntries(c) == { e \in Entries(c) : Len(e.value) = 1 }
\* The member variables of c.
Variables(c) == { m \in Descendants(c.body[1]) : m.kind = "VariableDeclaration" }
\* The initial value the declaration of member x or y of the modelled
\* structs gives it.
DeclaredValue(name) ==
    IF name = "y" THEN IF input \in MemberSources THEN "2" ELSE "3" ELSE ""
\* C17: in every class body, a member variable named by a one-value entry
\* m(v) or m{v} of a constructor's initializer list has the text of v as its
\* initial value, wherever the constructor stands among the members; a
\* variable that no one-value entry names keeps the value of its declaration.
C17_InitializersMerged ==
    \A c \in { n \in ClassNodes : n.body # Nothing /\ n.name = "S" } :
        \A v \in Variables(c) :
            /\ \A e \in SingleEntries(c) :
                   e.member.name = v.name => v.initial_value = e.value[1].name
            /\ (\A e \in SingleEntries(c) : e.member.name # v.name)
                   => v.initial_value = DeclaredValue(v.name)

\* ---- C19
\* The node's namespace path holds the marker of an anonymous namespace.
InAnonymousNamespace(n) == \E k \in 1..Len(n.namespace) : n.namespace[k] = None
\* The node is a function or a variable declared with the modifier static.
DeclaredStatic(n) ==
    \/ /\ n.kind \in FUNCTION_KINDS
       /\ n.return_type # Nothing
       /\ \E k \in 1..Len(n.return_type[1].modifiers) :
              n.return_type[1].modifiers[k] = "static"
    \/ /\ n.kind = "VariableDeclaration"
       /\ \E k \in 1..Len(n.type.modifiers) : n.type.modifiers[k] = "static"
\* C19: a node declared static, and a node in an anonymous namespace at any
\* depth, is not exportable, whatever its kind.
C19_FileLocalNotExportable ==
    \A n \in Descendants(yielded) :
        DeclaredStatic(n) \/ InAnonymousNamespace(n) => ~is_exportable(n)

\* ---- C20
\* The node's templated_types is the map of the template parameters of
\* prefix p (each to (None, None)), or None without a template<...>.
TemplatedTypesOf(p) ==
    IF p.none THEN Nothing
    ELSE Some([k \in p.params |-> [type_name |-> Nothing, default |-> Nothing]])
\* The node's return type is the Type of return type r.
ReturnTypeIs(n, r) ==
    /\ n.return_type # Nothing
    /\ n.return_type[1].name = r.name
    /\ n.return_type[1].modifiers = r.modifiers
    /\ n.return_type[1].reference = r.reference
    /\ n.return_type[1].pointer = r.pointer
\* The input names a function Write, as the modelled declarators do and no
\* other modelled source does.
WRITE == Chars("Write")
NamesWrite == \E k \in 1..(Len(input) - 4) : SubSeq(input, k, k + 4) = WRITE
\* C20: [template <...>] ReturnType Q::name(...) yields one Method named
\* name whose in_class is the tokens of Q (template arguments included, the
\* trailing '::' not), whose return type is the Type of ReturnType and whose
\* templated_types is the map of the template parameters; without Q:: it
\* yields one Function named name.
C20_QualifiedDeclaratorIsMethod ==
    NamesWrite =>
      /\ bst \in { "run", "done" }
      /\ bst = "done" =>
           /\ \A d \in Declarators :
                input = DeclaratorText(d) =>
                    /\ YieldedOne(IF d[3] = UNQUALIFIED THEN "Function" ELSE "Method", "Write")
                    /\ d[3] # UNQUALIFIED =>
                         Names(yielded[1].in_class) = Names(list_get_tokens(Chars(d[3])))
                    /\ ReturnTypeIs(yielded[1], d[2])
                    /\ yielded[1].templated_types = TemplatedTypesOf(d[1])
           /\ input = INLINE_METHOD =>
                /\ YieldedOne("Method", "Write")
                /\ Names(yielded[1].in_class) = << "EVM", "::", "VH", "<", "T", ">" >>
C20_Witness ==
    /\ input = Chars("template <class T> inline void EVM::VH<T>::Write() { }")
    /\ bst = "done"
    /\ YieldedOne("Method", "Write")
    /\ Names(yielded[1].in_class) = << "EVM", "::", "VH", "<", "T", ">" >>
    /\ yielded[1].templated_types # Nothing

\* ------------------------------------------------ claims on the converter
\* ---- C18
RECURSIVE Shape(_)
\* A Type as a tree: its name and the trees of its templated_types.
Shape(type) ==
    [name |-> type.name,
     args |-> [k \in 1..Len(type.templated_types) |-> Shape(type.templated_types[k])]]
RECURSIVE NamesIn(_)
\* The names of a tree.
NamesIn(tree) == { tree.name } \cup UNION { NamesIn(tree.args[k]) : k \in 1..Len(tree.args) }
TYPE_NAMES == TypeNames \cup { "Bar", "Blah", "Bling", "Y" }
\* C18: to_type turns the tokens of Name<argument, ...> into one Type named
\* Name whose templated_types are the Types of the arguments, one for each
\* and in their order, and so on inside each argument, whether the closing
\* brackets touch ('>>') or not ('> >').  Every name of the Type is a plain
\* name, so its tree is the tree of the input exactly when it renders to
\* the input.
C18_TemplateArguments ==
    types # None =>
        /\ Len(types) = 1
        /\ NamesIn(Shape(types[1])) \subseteq TYPE_NAMES
        /\ \E c \in CLOSERS : input = Chars(Render(Shape(types[1]), c))
C18_Witness ==
    /\ input = Chars("Bar<Foo<X>, Blah, Bling<Y>>")
    /\ types # None
    /\ Len(types) = 1
    /\ Len(types[1].templated_types) = 3
    /\ Shape(types[1].templated_types[3]) = [name |-> "Bling", args |-> << Leaf("Y") >>]

\* ------------------------------------------------ claims on the hunter
\* ---- C13
\* The files that fail to tokenize or to parse, and the names of the nodes
\* of the files that do not.
MALFORMED == { "token.h", "parse.h", "cut.h", "quote.h" }
COMPLETE == ("foo.h" :> << "Foo", "g" >>) @@ ("bar.h" :> << "Bar" >>)
\* The module _get_module returned for the k-th #include.
Contained(k) ==
    /\ input[k] \in MALFORMED =>
         /\ modules[k].ast_list = Nothing
         /\ input[k] \in DOMAIN module_cache
         /\ module_cache[input[k]] = modules[k]
    /\ input[k] \in DOMAIN COMPLETE =>
         /\ modules[k].ast_list # Nothing
         /\ Len(modules[k].ast_list[1]) = Len(COMPLETE[input[k]])
         /\ \A j \in 1..Len(COMPLETE[input[k]]) :
                modules[k].ast_list[1][j].name = COMPLETE[input[k]][j]
NamespaceMarkers(b) == Cardinality({ k \in 1..Len(b.namespaces) : b.namespaces[k] })
\* The token the coming iteration of the loop of generate() reads first.
Read == _get_next_token(builder)
\* C30: the brace-marker stack of the builder holds as many namespace
\* markers as its namespace stack holds names; an iteration of generate()
\* that reads '{' pushes a marker that is not a namespace marker, one that
\* reads '}' pops a marker, and a name with it exactly when the marker is a
\* namespace marker, and one that reads '}' while no marker is left changes
\* neither stack and raises nothing.
C30_MarkersMatchNames ==
    [][/\ NamespaceMarkers(builder') = Len(builder'.namespace_stack)
       /\ (Read.exc = OK /\ Read.token.name = "{") =>
              /\ builder'.namespaces = Append(builder.namespaces, FALSE)
              /\ builder'.namespace_stack = builder.namespace_stack
              /\ bst' = "run"
       /\ (Read.exc = OK /\ Read.token.name = "}" /\ builder.namespaces = << >>) =>
              /\ builder'.namespaces = << >>
              /\ builder'.namespace_stack = builder.namespace_stack
              /\ bst' = "run"
       /\ (Read.exc = OK /\ Read.token.name = "}" /\ builder.namespaces # << >>) =>
              /\ builder'.namespaces = Front(builder.namespaces)
              /\ builder'.namespace_stack =
                     IF Last(builder.namespaces) THEN Front(builder.namespace_stack)
                     ELSE builder.namespace_stack
              /\ bst' = "run"]_vars
\* A '}' has been read with no marker left, and later a bare block was
\* opened inside a namespace.
C30_Witness ==
    /\ input = Chars("} namespace A { { class Foo;")
    /\ builder.namespaces = << TRUE, FALSE >>
    /\ builder.namespace_stack = << "A" >>
    /\ yielded # << >>

\* ---- C28
RECURSIVE MatchingBrace(_, _, _)
\* The index in tokens of the '}' that closes count open braces, looked for
\* from index k on; 0 when there is none.
MatchingBrace(tokens, k, count) ==
    IF k > Len(tokens) THEN 0
    ELSE IF tokens[k].token_type = SYNTAX /\ tokens[k].name = "{"
    THEN MatchingBrace(tokens, k + 1, count + 1)
    ELSE IF tokens[k].token_type = SYNTAX /\ tokens[k].name = "}"
    THEN IF count = 1 THEN k ELSE MatchingBrace(tokens, k + 1, count - 1)
    ELSE MatchingBrace(tokens, k + 1, count)
\* The index of the first token named c from index k on; 0 when there is none.
FirstNamed(tokens, c, k) ==
    LET at == { j \in k..Len(tokens) : tokens[j].name = c }
    IN  IF at = {} THEN 0 ELSE SetMin(at)
\* The coming iteration of generate() reads a class with a body.
ReadsClassBody ==
    /\ bst = "run"
    /\ Read.exc = OK
    /\ Read.token.name \in { "class", "struct", "union" }
    /\ FirstNamed(Pending(builder), "{", 1) # 0
    /\ FirstNamed(Pending(builder), ";", 1) > FirstNamed(Pending(builder), "{", 1)
\* C28: an iteration of generate() that reads a class with a body and ends
\* normally leaves the namespace stack, the brace-marker stack and the
\* pushback queue of the builder as they were, whatever the body holds, and
\* the builder goes on with the tokens after the '}' that matches the '{'
\* of the body (and after the ';' that ends the declaration, when there is
\* one).
C28_BodyLeavesEnclosingBuilder ==
    [][(ReadsClassBody /\ bst' = "run") =>
          LET tokens == Pending(builder)
              close == MatchingBrace(tokens, FirstNamed(tokens, "{", 1) + 1, 1)
              semi == IF FirstNamed(tokens, ";", close) = 0 THEN Len(tokens)
                      ELSE FirstNamed(tokens, ";", close)
          IN  /\ close # 0
              /\ builder'.namespace_stack = builder.namespace_stack
              /\ builder'.namespaces = builder.namespaces
              /\ builder'.token_queue = builder.token_queue
              /\ Pending(builder') = SubSeq(tokens, semi + 1, Len(tokens))]_vars
\* The struct whose body leaves a surplus '}' has been read inside namespace A.
C28_Witness ==
    /\ input = Chars("namespace A { struct S { auto f = [] { return 1; }; }; class Bar; }")
    /\ bst = "run"
    /\ Len(yielded) = 1 /\ yielded[1].kind = "Struct"
    /\ builder.namespace_stack = << "A" >>
    /\ builder.namespaces = << TRUE >>
    /\ builder.token_queue = << >>

\* ---- C29
\* A node as it reads when the builder is b: a list it shares with the
\* builder holds what the builder's list holds then.
Seen(n, b) ==
    IF "namespace" \in DOMAIN n /\ n.namespace = << SAME_LIST >>
    THEN [n EXCEPT !.namespace = b.namespace_stack]
    ELSE n
RECURSIVE Skip(_, _)
\* The builder b after k tokens are read from it.
Skip(b, k) == IF k = 0 THEN b ELSE Skip(_get_next_token(b).b, k - 1)
\* The nodes the builder of the body of the class that is read next
\* produces, before _get_class looks at them.
ProducedInBody ==
    LET tokens == Pending(builder)
    IN  Call("generate_loop",
             << ASTBuilder(get_scope(Skip(builder, FirstNamed(tokens, "{", 1))),
                           tokens[2].name, builder.namespace_stack), << >> >>).nodes
Written(p, c) ==
    \E k \in 1..Len(list_get_tokens(input)) :
        /\ list_get_tokens(input)[k].name = c
        /\ p.start <= list_get_tokens(input)[k].start
        /\ list_get_tokens(input)[k].end <= p.end
RECURSIVE TopLevelCommas(_, _)
\* How many of the tokens are commas outside angle brackets.
TopLevelCommas(tokens, depth) ==
    IF tokens = << >> THEN 0
    ELSE IF Head(tokens).name = "<" THEN TopLevelCommas(Tail(tokens), depth + 1)
    ELSE IF Head(tokens).name = ">" THEN TopLevelCommas(Tail(tokens), depth - 1)
    ELSE (IF Head(tokens).name = "," /\ depth = 0 THEN 1 ELSE 0)
             + TopLevelCommas(Tail(tokens), depth)
\* C21: to_parameters gives one Parameter for each entry between top-level
\* commas, in order; the type of a parameter written with '[]' has array
\* true and pointer false, of one written with '*' pointer true and array
\* false, of one written with '&' reference true.
C21_ArrayPointerReference ==
    (types # None /\ input # << >>) =>
        /\ Len(types) = TopLevelCommas(list_get_tokens(input), 0) + 1
        /\ \A k \in 1..Len(types) :
               /\ \A j \in 1..Len(types) : j < k => types[j].end < types[k].start
               /\ Written(types[k], "[") => types[k].type.array /\ ~types[k].type.pointer
               /\ Written(types[k], "*") => types[k].type.pointer /\ ~types[k].type.array
               /\ Written(types[k], "&") => types[k].type.reference

\* ------------------------------------------------ claims on node strings
\* ---- C22
\* The text without its blanks.
NoBlanks(cs) == SelectSeq(cs, LAMBDA c : c # " ")
\* C22: for a simple declaration 'T name;' or 'T name = v;' the builder
\* yields one VariableDeclaration, and its to_string() is the text of the
\* declaration without the ';', blanks aside.
C22_ToStringIsTheDeclaration ==
    (input \in SimpleDeclarations /\ bst = "done") =>
        /\ Len(yielded) = 1
        /\ yielded[1].kind = "VariableDeclaration"
        /\ NoBlanks(Chars(to_string(yielded[1]))) = NoBlanks(SelectSeq(input, LAMBDA c : c # ";"))

\* ------------------------------------------------ claims on the token queue
\* ---- C23
RECURSIVE ReadAll(_)
\* The tokens the reads of builder b return until a read raises.
ReadAll(b) ==
    LET r == _get_next_token(b)
    IN  IF r.exc # OK THEN << >> ELSE << r.token >> \o ReadAll(r.b)
RECURSIVE ReadN(_, _)
\* n reads of builder b: the tokens they return and the builder after them.
ReadN(b, n) ==
    IF n = 0 THEN [b |-> b, tokens |-> << >>]
    ELSE LET r == _get_next_token(b)
             rest == ReadN(r.b, n - 1)
         IN  IF r.exc # OK THEN [b |-> r.b, tokens |-> << r.exc >>]
             ELSE [b |-> rest.b, tokens |-> << r.token >> \o rest.tokens]
\* The tokens of the underlying stream that no read has returned yet.
StreamRest == ReadAll([builder EXCEPT !.token_queue = << >>])
ItemsOf(seq) == { seq[k] : k \in 1..Len(seq) }
\* C23: at any point of any interleaving of reads and push-backs:
\* after _add_back_tokens([t1..tn]) the next n reads return t1..tn in that
\* order and leave the builder as it was; after _add_back_token(a) and then
\* _add_back_token(b) the next two reads return b, then a; the reads return
\* the pushed-back tokens, last pushed first, before the rest of the stream;
\* and every token of the source is held by the caller, on the queue or
\* still in the stream, in one place only.
C23_PushBackOrder ==
    /\ \A j \in 1..(Len(held) + 1), k \in 0..Len(held) :
           j <= k + 1 =>
               ReadN(_add_back_tokens(builder, SubSeq(held, j, k)), k + 1 - j)
                   = [b |-> builder, tokens |-> SubSeq(held, j, k)]
    /\ \A j, k \in 1..Len(held) :
           ReadN(_add_back_token(_add_back_token(builder, held[j]), held[k]), 2)
               = [b |-> builder, tokens |-> << held[k], held[j] >>]
    /\ ReadAll(builder) = Reverse(builder.token_queue) \o StreamRest
    /\ ItemsOf(held) \cup ItemsOf(builder.token_queue) \cup ItemsOf(StreamRest)
           = ItemsOf(list_get_tokens(input))
    /\ Len(held) + Len(builder.token_queue) + Len(StreamRest)
           = Len(list_get_tokens(input))
\* Two tokens were pushed back in one call after a third was read, the caller
\* holds that one, and the next read returns the first token of the source.
C23_Witness ==
    /\ input = Chars("a b c d")
    /\ Len(held) = 1
    /\ held[1].name = "c"
    /\ Names(builder.token_queue) = << "b", "a" >>
    /\ Names(ReadAll(builder)) = << "a", "b", "d" >>

\* ------------------------------------------------ claims on initial values
\* ---- C24
OPENERS == { "(", "{", "[" }
CLOSERS_OF_OPENERS == { ")", "}", "]" }
RECURSIVE EndOfDeclaration(_, _, _)
\* The index, from k on, of the first ';' that is inside no bracket opened
\* from k on (0 when there is none).
EndOfDeclaration(tokens, k, depth) ==
    IF k > Len(tokens) THEN 0
    ELSE IF tokens[k].name = ";" /\ depth = 0 THEN k
    ELSE EndOfDeclaration(tokens, k + 1,
             IF tokens[k].name \in OPENERS THEN depth + 1
             ELSE IF tokens[k].name \in CLOSERS_OF_OPENERS THEN depth - 1
             ELSE depth)
\* The text between the first '=' of the tokens and the ';' that ends the
\* declaration.
InitializerText(tokens) ==
    LET eq == CHOOSE k \in 1..Len(tokens) :
                  tokens[k].name = "=" /\ \A j \in 1..(k - 1) : tokens[j].name # "="
    IN  Join("", Names(SubSeq(tokens, eq + 1, EndOfDeclaration(tokens, eq + 1, 0) - 1)))
\* C24: a declaration with an '=' before its first '(' or '{' yields a
\* VariableDeclaration, not a Function, whose initial_value is the text of
\* the tokens between the '=' and the ';' that ends the declaration, the
\* next ';' outside the brackets the initializer opens.
C24_InitialValueToTheSemicolon ==
    (input \in AssignmentSources /\ yielded # << >>) =>
        /\ yielded[1].kind = "VariableDeclaration"
        /\ yielded[1].initial_value = InitializerText(list_get_tokens(input))

\* ------------------------------------------------ claims on trailing specifiers
\* ---- C25
\* The flag a trailing specifier stands for.
FlagOf(specifier) ==
    IF specifier \in { "const", "override", "noexcept(true)" } THEN FUNCTION_SPECIFIER
    ELSE IF specifier = "throw()" THEN FUNCTION_THROW
    ELSE IF specifier = "__attribute__((x))" THEN FUNCTION_ATTRIBUTE
    ELSE IF specifier = "MACRO" THEN FUNCTION_UNKNOWN_ANNOTATION
    ELSE FUNCTION_NONE
RECURSIVE FlagsOf(_)
\* The union of the flags of the specifiers.
FlagsOf(ss) == IF ss = << >> THEN FUNCTION_NONE ELSE BitOr(FlagsOf(Tail(ss)), FlagOf(Head(ss)))
AUTO_F == Chars("auto f() ")
\* The input declares the function f of the specifier sources.
DeclaresF == Len(input) > Len(AUTO_F) /\ SubSeq(input, 1, Len(AUTO_F)) = AUTO_F
\* C25: a function declaration whose parameter list is followed by trailing
\* specifiers, in any order and with any repetition, is accepted, and the
\* modifiers of its Function are the union of the flags of the specifiers.
C25_SpecifiersInAnyOrder ==
    DeclaresF =>
        /\ bst \in { "run", "done" }
        /\ bst = "done" =>
               /\ YieldedOne("Function", "f")
               /\ \A ss \in SeqsUpTo(Specifiers, MaxSpecifiers) :
                      input = SpecifierText(ss) => yielded[1].modifiers = FlagsOf(ss)

\* ------------------------------------------------ claims on macros
\* ---- C26
\* What a directive line does to the set of function-like macro names: the
\* name a '#define NAME(...)' adds, the name a '#undef NAME' removes.
Adds(directive) ==
    IF directive \in { "#define FOO(x) x", "# define FOO( x ) x" } THEN { "FOO" }
    ELSE IF directive = "#define BAR(a, b)" THEN { "BAR" }
    ELSE {}
Removes(directive) == IF directive = "#undef FOO" THEN { "FOO" } ELSE {}
RECURSIVE MacrosAfter(_)
\* The function-like macro names after the directive lines ds.
MacrosAfter(ds) ==
    IF ds = << >> THEN {}
    ELSE (MacrosAfter(Front(ds)) \ Removes(Last(ds))) \cup Adds(Last(ds))
\* How many directive lines the builder has read.
DirectivesRead ==
    Cardinality({ k \in 1..(Len(AllTokens) - Len(Pending(builder))) :
                    AllTokens[k].token_type = PREPROCESSOR })
\* The name the use declares a variable with: 'int NAME(...) y;'.
UsedName(use) == IF use = "int BAR(1, 2) y;" THEN "BAR" ELSE "FOO"
\* C26: at every point of the parse the set of function-like macro names is
\* the names the '#define NAME(...)' lines read so far added, less those a
\* later '#undef NAME' removed; and a use NAME(...) of such a name inside a
\* declaration, at the top level, in a namespace or in a class body, is
\* skipped with its parenthesis group: 'int NAME(...) y;' declares the
\* variable y, not a function NAME.
C26_MacroUsesAreSkipped ==
    \A ds \in SeqsUpTo(Directives, MaxDirectives), use \in MacroUses :
        input = MacroText(ds, use) =>
            /\ bst \in { "run", "done" }
            /\ builder.define = MacrosAfter(SubSeq(ds, 1, DirectivesRead))
            /\ (bst = "done" /\ UsedName(use) \in MacrosAfter(ds)) =>
                   /\ \E n \in Descendants(yielded) :
                          n.kind = "VariableDeclaration" /\ n.name = "y"
                   /\ \A n \in Descendants(yielded) :
                          ~(n.kind \in FUNCTION_KINDS /\ n.name = UsedName(use))

====
